---- MODULE Spec2Model ----
(***************************************************************************)
(* A model of the vibe-draw generation glue:                               *)
(*   - the four result-wait functions (waitForImageGeneration,             *)
(*     waitForCodeGeneration, waitForTaskResult, waitForCodeEditing),      *)
(*     each a promise around one notification channel and one timer;       *)
(*   - the orchestrators vibe3DCode and edit3DCode and the regenerate      *)
(*     button of the preview element, acting on the editor's shapes.       *)
(* SpecWait runs one wait function against every event its channel can     *)
(* deliver, with a clock for its timer.  Spec runs orchestrator            *)
(* invocations one after another on a small canvas.                        *)
(***************************************************************************)
EXTENDS Integers, Sequences, FiniteSets, TLC

VARIABLES
    w,        \* the wait under test: promise, channel and timer of one call
    clock,    \* minutes since the wait function was called
    ev,       \* the event the channel delivered last (or the timer / open / close step)
    shapes,   \* the preview (model3d) shapes of the editor, by shape id
    selected, \* the ids of the editor's selected shapes
    nextId,   \* the id createShapeId() hands out next
    call,     \* the orchestrator invocation in progress, or the one that ended last
    callB,    \* a second invocation, interleaved with the first (SpecPair)
    san,      \* one call of processThreeJsCode (SpecSanitizer)
    snap,     \* one call of toSvg on a preview shape (SpecSnapshot)
    view,     \* the component of one preview shape (SpecPreview)
    imp       \* one invocation of improveDrawing (SpecImprove)

waitVars == <<w, clock, ev>>
orchVars == <<shapes, selected, nextId, call>>
vars == <<w, clock, ev, shapes, selected, nextId, call, callB, san, snap, view, imp>>

\* what the steps of a wait call (SpecWait) leave alone
outsideWait == <<shapes, selected, nextId, call, callB, san, snap, view, imp>>

\* what the steps of one invocation at a time (Spec) leave alone
outsideSpec == <<w, clock, ev, callB, san, snap, view, imp>>

\* what the steps of two interleaved invocations (SpecPair) leave alone
outsidePair == <<w, clock, ev, san, snap, view, imp>>

\* what the call of processThreeJsCode (SpecSanitizer) leaves alone
outsideSanitizer == <<w, clock, ev, shapes, selected, nextId, call, callB, snap, view, imp>>

\* what the call of toSvg (SpecSnapshot) leaves alone
outsideSnapshot == <<w, clock, ev, shapes, selected, nextId, call, callB, san, view, imp>>

\* what the component of a preview shape (SpecPreview) leaves alone
outsidePreview == <<w, clock, ev, shapes, selected, nextId, call, callB, san, snap, imp>>

\* what an invocation of improveDrawing (SpecImprove) leaves alone
outsideImprove == <<w, clock, ev, shapes, nextId, call, callB, san, snap, view>>

-----------------------------------------------------------------------------
(* Bounds of the model *)

\* the longest text given to processThreeJsCode, in segments (a fenced block,
\* a script tag, a line)
MaxSegments == 2

\* minutes of wall-clock time the wait is observed for (past the 5 minute timer)
MaxClock == 6

\* preview shapes createShape() may create in one run
MaxShapes == 2

-----------------------------------------------------------------------------
(* Program constants *)

ImageTimeoutMs == 120000
CodeTimeoutMs == 300000
TaskTimeoutMs == 120000
EditTimeoutMs == 120000
DefaultImageSize == 500
MinCodeLength == 100
MinEditableCodeLength == 10

MsPerMinute == 60 * 1000

\* setTimeout(..., 2000) of toSvg
SnapshotTimeoutMs == 2000

\* the unit of time of a call of toSvg
MsPerTick == 500

-----------------------------------------------------------------------------
(* JavaScript values *)

\* a property that the parsed object does not have
Absent == "<undefined>"

\* x is truthy: a non-empty string
Truthy(x) == x # Absent /\ x # ""

\* x || d
OrElse(x, d) == IF Truthy(x) THEN x ELSE d

\* what a promise settles with: a tag and the text / numbers that go with it
Val(tag, text, width, height) ==
    [tag |-> tag, text |-> text, width |-> width, height |-> height]

NoValue == Val("none", "", 0, 0)
Null == Val("null", "", 0, 0)
Content(c) == Val("content", c, 0, 0)
ErrorOf(text) == Val("error", text, 0, 0)
\* a bare value handed to resolve(): undefined when the property is absent
Bare(x) == IF x = Absent THEN Val("undefined", "", 0, 0) ELSE Val("string", x, 0, 0)

-----------------------------------------------------------------------------
(* Generated text and processThreeJsCode.  A text is modelled line by line: *)
(* a fence, a script tag, an import statement and a statement of scene code *)
(* each stand on a line of their own.                                       *)

\* a fence is three grave accents; a TLA+ string cannot hold that character,
\* so the model writes a fence as three tildes
JsFence == "~~~javascript"
Fence == "~~~"
ScriptOpen == "<script>"
ScriptClose == "</script>"
ImportThree == "import * as THREE from \"three\";"
ImportControls == "import { OrbitControls } from \"three/addons/controls/OrbitControls.js\";"
RequireThree == "const THREE = require(\"three\");"
Geometry == "const geometry = new THREE.BoxGeometry(1, 1, 1);"
Material == "const material = new THREE.MeshStandardMaterial({ color: 0x44aa88 });"
Controls == "const controls = new THREE.OrbitControls(camera, renderer.domElement);"
ControlsBare == "const controls = new OrbitControls(camera, renderer.domElement);"
AddCube == "scene.add(cube);"
Code == "code"
\* an indented import of the default export under another name
ImportAliased == "  import Three from \"three\";"

RECURSIVE Join(_)
\* the lines joined by line feeds
Join(ls) ==
    IF Len(ls) = 0 THEN ""
    ELSE IF Len(ls) = 1 THEN ls[1]
    ELSE ls[1] \o "\n" \o Join(Tail(ls))

\* the texts the generation service answers with, as lines
PlainScene == <<Geometry, Material, Controls>>
FencedScene == <<JsFence, ImportThree, Geometry, Material, Fence>>
TinyScene == <<AddCube>>

Corpus == {PlainScene, FencedScene, TinyScene}

GeneratedTexts == { Join(ls) : ls \in Corpus }

\* the segments the texts given to processThreeJsCode alone are made of
Segments ==
    { <<JsFence, Code, Fence>>,           \* a javascript block
      <<JsFence, Fence>>,                 \* an empty javascript block
      <<Fence, Geometry, Fence>>,         \* a block with no language
      <<ScriptOpen, Material, ScriptClose>>,
      <<AddCube>>,
      <<ImportThree>>,
      <<ImportAliased>>,
      <<Controls>> }

RECURSIVE SegmentTexts(_)
\* the texts of n segments, as lines
SegmentTexts(n) ==
    IF n = 0 THEN { <<>> }
    ELSE { seg \o rest : seg \in Segments, rest \in SegmentTexts(n - 1) }

\* the texts of one to MaxSegments segments
SanitizerInputs == UNION { SegmentTexts(n) : n \in 1..MaxSegments }

\* the lines of a text
SplitLines(text) ==
    IF text \in GeneratedTexts
    THEN CHOOSE ls \in Corpus : Join(ls) = text
    ELSE IF \E ls \in SanitizerInputs : Join(ls) = text
         THEN CHOOSE ls \in SanitizerInputs : Join(ls) = text
         ELSE <<text>>

IsJsFence(l) == l = JsFence
IsFence(l) == l \in {Fence, JsFence}
IsImport(l) == l \in {ImportThree, ImportControls, RequireThree}

RECURSIVE DropBlank(_)
\* without its leading empty lines (\s* of a pattern runs over them)
DropBlank(ls) ==
    IF Len(ls) > 0 /\ ls[1] = "" THEN DropBlank(Tail(ls)) ELSE ls

\* the first capture of a fenced block, one tagged javascript when jsOnly:
\* the lines up to the next fence and the line feed before it; <<>> when the
\* pattern does not match or captures nothing
FencedBlock(ls, jsOnly) ==
    LET Open(l) == IF jsOnly THEN IsJsFence(l) ELSE IsFence(l)
        opens == { i \in 1..Len(ls) : Open(ls[i]) /\ \E j \in (i+1)..Len(ls) : IsFence(ls[j]) }
    IN  IF opens = {} THEN <<>>
        ELSE LET i == CHOOSE x \in opens : \A y \in opens : x <= y
                 j == CHOOSE x \in (i+1)..Len(ls) :
                        IsFence(ls[x]) /\ \A y \in (i+1)..(x-1) : ~IsFence(ls[y])
                 body == DropBlank(SubSeq(ls, i + 1, j - 1))
             IN  IF body = <<>> THEN <<>> ELSE Append(body, "")

\* the first capture of <script ...> ... </script>
ScriptBlock(ls) ==
    LET opens == { i \in 1..Len(ls) :
                     ls[i] = ScriptOpen /\ \E j \in (i+1)..Len(ls) : ls[j] = ScriptClose }
    IN  IF opens = {} THEN <<>>
        ELSE LET i == CHOOSE x \in opens : \A y \in opens : x <= y
                 j == CHOOSE x \in (i+1)..Len(ls) :
                        ls[x] = ScriptClose /\ \A y \in (i+1)..(x-1) : ls[y] # ScriptClose
             IN  <<"">> \o SubSeq(ls, i + 1, j - 1) \o <<"">>

\* the working text: a javascript block, else any fenced block, else a script
\* tag, else the text itself
extractCode(ls) ==
    IF FencedBlock(ls, TRUE) # <<>> THEN FencedBlock(ls, TRUE)
    ELSE IF FencedBlock(ls, FALSE) # <<>> THEN FencedBlock(ls, FALSE)
    ELSE IF ScriptBlock(ls) # <<>> THEN ScriptBlock(ls)
    ELSE ls

RECURSIVE stripImports(_)
\* replace(/^import ...$/gm, ""): an import line is emptied, together with
\* the empty lines after it (the trailing \s* of the pattern)
stripImports(ls) ==
    IF Len(ls) = 0 THEN <<>>
    ELSE IF IsImport(ls[1]) THEN <<"">> \o stripImports(DropBlank(Tail(ls)))
    ELSE <<ls[1]>> \o stripImports(Tail(ls))

\* replace(/THREE\.OrbitControls/g, "OrbitControls")
renameControls(ls) ==
    [i \in 1..Len(ls) |-> IF ls[i] = Controls THEN ControlsBare ELSE ls[i]]

\* processThreeJsCode on the lines of the text
sanitizeLines(ls) == renameControls(stripImports(extractCode(ls)))

processThreeJsCode(code) == Join(sanitizeLines(SplitLines(code)))

\* the copy of processThreeJsCode in edit3DCode.tsx, stage by stage

\* jsMatch, else codeMatch, else scriptMatch, else the text itself
extractCode_edit(ls) ==
    LET jsMatch == FencedBlock(ls, TRUE)
        codeMatch == FencedBlock(ls, FALSE)
        scriptMatch == ScriptBlock(ls)
    IN  IF jsMatch # <<>> THEN jsMatch
        ELSE IF codeMatch # <<>> THEN codeMatch
        ELSE IF scriptMatch # <<>> THEN scriptMatch
        ELSE ls

RECURSIVE stripImports_edit(_)
\* the eight replace(/import .../, "") of the copy
stripImports_edit(ls) ==
    IF ls = <<>> THEN <<>>
    ELSE IF IsImport(Head(ls)) THEN <<"">> \o stripImports_edit(DropBlank(Tail(ls)))
    ELSE <<Head(ls)>> \o stripImports_edit(Tail(ls))

\* a copy that leaves THREE.OrbitControls as it is
renameControls_edit_missing(ls) == ls

\* replace(/THREE\.OrbitControls/g, "OrbitControls") of the copy
renameControls_edit(ls) ==
    [i \in DOMAIN ls |-> IF ls[i] = Controls THEN ControlsBare ELSE ls[i]]

processThreeJsCode_edit(code) ==
    Join(renameControls_edit(stripImports_edit(extractCode_edit(SplitLines(code)))))

\* one call of processThreeJsCode: its argument (as text and as lines), and
\* once it returned, what it returned (as text and as lines); editReturned
\* and editResult are those of the copy in edit3DCode.tsx on the same text
NewSan(ls) ==
    [code |-> Join(ls), lines |-> ls, returned |-> FALSE, result |-> "", resultLines |-> <<>>,
     editReturned |-> FALSE, editResult |-> ""]

NoSan == NewSan(<<>>)

-----------------------------------------------------------------------------
(* toSvg of the preview shape: the screenshot of the embedded frame *)

\* the ids of the shapes on the page; toSvg is called on one of them
SnapShapeIds == {"shape:1", "shape:2"}

\* a data URL of a rendered frame
Png == "data:image/png;base64,AAAA"

\* event.data of the message events the window receives: null, or an object
\* with or without screenshot and shapeid
NullData == [kind |-> "null", screenshot |-> Absent, shapeid |-> Absent]

MessageData ==
    {NullData} \cup
    [kind : {"object"}, screenshot : {Absent, "", Png}, shapeid : SnapShapeIds \cup {Absent}]

\* no message yet
NoMessage == [kind |-> "none", screenshot |-> Absent, shapeid |-> Absent]

\* a call of toSvg(shape): the promise it returned, the children of g, the
\* value the promise was resolved with, the window listener, the timer, the
\* request posted to the frame, and the last message the window received
NewSnap(id, iframe) ==
    [ shapeId    |-> id,
      iframe     |-> iframe,      \* document.getElementById finds the frame
      called     |-> FALSE,
      promise    |-> "none",      \* none, pending, resolved, rejected
      g          |-> <<>>,        \* href of the image children of g
      value      |-> <<>>,        \* the children of g when the promise settled
      settled    |-> 0,           \* times the promise changed from pending
      listener   |-> FALSE,
      removals   |-> 0,           \* calls of removeEventListener
      timer      |-> "none",      \* none, armed, cleared, fired
      requested  |-> FALSE,
      elapsed    |-> 0,
      msg        |-> NoMessage ]

NoSnap == NewSnap("shape:1", FALSE)

\* resolve(g): a promise settles once, later calls do nothing
resolveSnap(s) ==
    IF s.promise = "pending"
    THEN [s EXCEPT !.promise = "resolved", !.value = s.g, !.settled = s.settled + 1]
    ELSE s

\* window.removeEventListener('message', windowListener)
removeEventListener(s) ==
    [s EXCEPT !.listener = FALSE, !.removals = s.removals + 1]

\* toSvg up to the return of the promise: the listener is added, the timer
\* armed and the screenshot requested from the frame if there is one
toSvg(s) ==
    [s EXCEPT !.called = TRUE,
              !.promise = "pending",
              !.timer = "armed",
              !.listener = TRUE,
              !.requested = s.iframe]

\* the listener without the test of the shape id
windowListener_anyShape(s, data) ==
    IF data.kind = "object" /\ Truthy(data.screenshot)
    THEN resolveSnap([removeEventListener([s EXCEPT !.g = Append(s.g, data.screenshot)])
                        EXCEPT !.timer = IF s.timer = "armed" THEN "cleared" ELSE s.timer])
    ELSE s

\* windowListener(event): a null event.data makes the listener throw, which
\* the event loop reports and which changes nothing
windowListener(s, data) ==
    IF data.kind = "object" /\ Truthy(data.screenshot) /\ data.shapeid = s.shapeId
    THEN resolveSnap([removeEventListener([s EXCEPT !.g = Append(s.g, data.screenshot)])
                        EXCEPT !.timer = IF s.timer = "armed" THEN "cleared" ELSE s.timer])
    ELSE s

\* the callback of setTimeout
snapshotTimeout(s) ==
    removeEventListener(resolveSnap([s EXCEPT !.timer = "fired"]))

\* the delay of the timer in units of time
SnapshotDeadline == SnapshotTimeoutMs \div MsPerTick

-----------------------------------------------------------------------------
(* The component of the preview shape: what it renders, and its plus button *)

\* a gltfUrl
GltfUrl == "https://assets.example/model.glb"

\* the object code the parse service answers with
ObjectCode == "const cube = new THREE.Mesh(geometry, material);"

\* the tabs of the application
Tabs == {"tldraw", "threejs"}

\* the props of a model3d shape that the component reads
ShapeProps ==
    [isGltf : BOOLEAN, gltfUrl : {"", GltfUrl}, threeJsCode : {"", Join(TinyScene), Join(PlainScene)}]

\* the document of the iframe: the one that loads an asset, the one that
\* embeds the code, or none; load and code are what the template interpolates
Html(doc, load, code) == [doc |-> doc, load |-> load, code |-> code]

\* the bodies res.json() can meet: not JSON, or an object with or without content
ParseBodies == {"malformed", Absent, ObjectCode}

\* nothing to add
NoAdd == [kind |-> "none", arg |-> ""]

\* the id of the shape whose component is followed
ThisShape == "shape:1"

\* the detail of an 'add-gltf-object' event; detail may be null, and url and
\* shapeId may be missing
Detail(url, shapeId) == [present |-> TRUE, url |-> url, shapeId |-> shapeId]
NoDetail == [present |-> FALSE, url |-> Absent, shapeId |-> Absent]
Details ==
    {NoDetail} \cup { Detail(url, id) : url \in {Absent, GltfUrl},
                                       id \in {Absent} \cup SnapShapeIds }

\* the component of a shape with these props, the tab active when it renders
NewView(props, tab) ==
    [ props     |-> props,
      activeTab |-> tab,          \* the tab store
      clickTab  |-> tab,          \* the activeTab the running plus handler closed over
      pc        |-> "mounting",   \* mounting, rendered, fetch, json, timer, done
      html      |-> Html("none", "", ""),
      fetches   |-> 0,            \* parse requests sent
      parsed    |-> FALSE,        \* the parse request was answered and read
      objectCode |-> Absent,      \* actualCode.content
      timers    |-> 0,            \* setTimeout calls
      pending   |-> NoAdd,        \* what the timer will add
      added     |-> <<>>,         \* the objects given to the object store
      toasts    |-> 0,
      threw     |-> FALSE,        \* the handler ended with an unhandled rejection
      mounted   |-> {ThisShape},  \* the shapes whose component is mounted
      events    |-> 0,            \* 'add-gltf-object' events dispatched
      detail    |-> NoDetail,     \* the detail of the last one
      queue     |-> <<>> ]        \* the adds the listeners' timers will make

NoView == NewView([isGltf |-> FALSE, gltfUrl |-> "", threeJsCode |-> ""], "tldraw")

\* the same choosing the code whenever there is code
htmlToUse_codeFirst(props) ==
    IF Truthy(props.threeJsCode) THEN Html("code", "", props.threeJsCode)
    ELSE IF props.isGltf /\ Truthy(props.gltfUrl) THEN Html("asset", props.gltfUrl, "")
    ELSE Html("none", "", "")

\* const htmlToUse = isGltf && gltfUrl ? ... : threeJsCode ? ... : ''
htmlToUse(props) ==
    IF props.isGltf /\ Truthy(props.gltfUrl) THEN Html("asset", props.gltfUrl, "")
    ELSE IF Truthy(props.threeJsCode) THEN Html("code", "", props.threeJsCode)
    ELSE Html("none", "", "")

\* addObjectWithGltf(url) or addObjectFromCode(code), and the toast when the
\* store answers false
addObject(v, kind, arg, result) ==
    [v EXCEPT !.added = Append(v.added, [kind |-> kind, arg |-> arg]),
              !.toasts = IF result THEN v.toasts ELSE v.toasts + 1,
              !.pending = NoAdd,
              !.pc = "done"]

\* if (activeTab !== 'threejs') { setActiveTab('threejs'); setTimeout(add, 100) }
\* else add
switchTabAndAdd(v, kind, arg, result) ==
    IF v.clickTab # "threejs"
    THEN [v EXCEPT !.activeTab = "threejs", !.timers = v.timers + 1,
                   !.pending = [kind |-> kind, arg |-> arg], !.pc = "timer"]
    ELSE addObject(v, kind, arg, result)

\* the same asking the parse service whatever the shape holds
plus_onClick_alwaysParse(v, result) ==
    IF (v.props.isGltf /\ Truthy(v.props.gltfUrl)) \/ Truthy(v.props.threeJsCode)
    THEN [v EXCEPT !.fetches = v.fetches + 1, !.pc = "fetch"]
    ELSE [v EXCEPT !.pc = "done"]

\* onClick of the plus icon, up to its first await or its end
plus_onClick(v, result) ==
    IF v.props.isGltf /\ Truthy(v.props.gltfUrl)
    THEN switchTabAndAdd([v EXCEPT !.clickTab = v.activeTab], "gltf", v.props.gltfUrl, result)
    ELSE IF Truthy(v.props.threeJsCode)
         THEN [v EXCEPT !.fetches = v.fetches + 1, !.pc = "fetch",
                        !.clickTab = v.activeTab]
         ELSE [v EXCEPT !.pc = "done"]

\* after await fetch(".../api/cerebras/parse"): res.ok is not looked at
plus_afterFetch(v, response) ==
    IF response = "rejected"
    THEN [v EXCEPT !.pc = "done", !.threw = TRUE]
    ELSE [v EXCEPT !.pc = "json"]

\* after await res.json(): objectCode = actualCode.content
plus_afterJson(v, body, result) ==
    IF body = "malformed"
    THEN [v EXCEPT !.pc = "done", !.threw = TRUE]
    ELSE switchTabAndAdd([v EXCEPT !.parsed = TRUE, !.objectCode = body], "code", body, result)

\* the callback of setTimeout(..., 100)
plus_afterTimeout(v, result) ==
    addObject(v, v.pending.kind, v.pending.arg, result)

\* the 'add-gltf-object' listener of the component of shape id; activeTab is
\* the value the effect closed over when it registered the listener
handleAddGltfObject(v, activeTab, id, detail) ==
    IF detail.present /\ Truthy(detail.url)
    THEN IF Truthy(detail.shapeId) /\ detail.shapeId # id
         THEN v
         ELSE IF activeTab # "threejs"
              THEN [v EXCEPT !.activeTab = "threejs", !.timers = v.timers + 1,
                             !.queue = Append(v.queue, [kind |-> "gltf", arg |-> detail.url])]
              ELSE [v EXCEPT !.added = Append(v.added, [kind |-> "gltf", arg |-> detail.url])]
    ELSE v

\* window.dispatchEvent(new CustomEvent('add-gltf-object', {detail})): the
\* listener of every mounted component runs before React renders again, so
\* each of them sees the tab that was active when the event was dispatched
RECURSIVE runListeners(_, _, _, _)
runListeners(v, activeTab, ids, detail) ==
    IF ids = {} THEN v
    ELSE LET id == CHOOSE i \in ids : TRUE
         IN  runListeners(handleAddGltfObject(v, activeTab, id, detail),
                          activeTab, ids \ {id}, detail)

dispatchAddGltfObject(v, detail) ==
    runListeners([v EXCEPT !.events = v.events + 1, !.detail = detail],
                 v.activeTab, v.mounted, detail)

\* the callback of the listener's setTimeout(..., 100): the result of
\* addObjectWithGltf is not looked at
handleAddGltfObject_afterTimeout(v) ==
    [v EXCEPT !.added = Append(v.added, Head(v.queue)), !.queue = Tail(v.queue)]

-----------------------------------------------------------------------------
(* Events of the notification channel *)

WaitFns == {"waitForImageGeneration", "waitForCodeGeneration",
            "waitForTaskResult", "waitForCodeEditing"}

IsSocket(fn) == fn = "waitForTaskResult"

\* Absent: the message has no status property
Statuses == {Absent, "queued", "progress", "completed", "failed", "error"}
TerminalStatuses == {"completed", "failed", "error"}

\* event.data: json is "undefined" (the event carries no data: a connection
\* error), "malformed" (text JSON.parse throws on) or "object"
Data(json, status, content, message, error, images, data) ==
    [json |-> json, status |-> status, content |-> content, message |-> message,
     error |-> error, images |-> images, data |-> data]

Undef == Data("undefined", Absent, Absent, Absent, Absent, <<>>, Absent)
Malformed == Data("malformed", Absent, Absent, Absent, Absent, <<>>, Absent)

\* width / height 0: the image carries no (or a zero) dimension
Images == { <<>>,
            << [image_base64 |-> "png", width |-> 0, height |-> 0] >>,
            << [image_base64 |-> "png", width |-> 640, height |-> 480] >> }

CodeObjects ==
    { Data("object", s, c, m, e, <<>>, Absent) :
        s \in Statuses, c \in {Absent, ""} \cup GeneratedTexts, m \in {Absent, "boom"},
        e \in {Absent, "bad"} }

ImageObjects ==
    { Data("object", s, Absent, m, e, i, Absent) :
        s \in Statuses, m \in {Absent, "boom"}, e \in {Absent, "bad"}, i \in Images }

TaskObjects ==
    { Data("object", s, Absent, m, Absent, <<>>, d) :
        s \in Statuses, m \in {Absent, "boom"}, d \in {Absent, "", "model.glb"} }

Event(type, data) == [type |-> type, data |-> data]

NoEvent == Event("none", Undef)
OpenEvent == Event("open", Undef)
CloseEvent == Event("close", Undef)
TimerEvent == Event("timer", Undef)
StartEvent == Event("start", Data("object", "queued", Absent, Absent, Absent, <<>>, Absent))
\* the channel itself failed: an error event that carries no data
ConnectionError == Event("error", Undef)

\* the events a wait function has a listener for
Events(fn) ==
    CASE fn = "waitForImageGeneration" ->
            {StartEvent, ConnectionError}
            \cup { Event(t, d) : t \in {"complete", "error"},
                                 d \in ImageObjects \cup {Malformed} }
      [] fn = "waitForCodeEditing" ->
            {StartEvent, ConnectionError}
            \cup { Event(t, d) : t \in {"complete", "error"},
                                 d \in CodeObjects \cup {Malformed} }
      [] fn = "waitForCodeGeneration" ->
            {StartEvent, ConnectionError}
            \cup { Event(t, d) : t \in {"message", "complete", "error"},
                                 d \in CodeObjects \cup {Malformed} }
      [] fn = "waitForTaskResult" ->
            {ConnectionError}
            \cup { Event("message", d) : d \in TaskObjects \cup {Malformed} }

-----------------------------------------------------------------------------
(* The promise, the channel and the timer of one wait *)

NewWait(fn) ==
    [fn |-> fn,
     state |-> "pending",          \* the promise: pending, resolved, rejected
     value |-> NoValue,            \* what it settled with
     readyState |-> "CONNECTING",  \* of the EventSource / WebSocket
     closeCalls |-> 0,             \* invocations of eventSource.close()
     settleCalls |-> 0,            \* invocations of resolve() and reject()
     timeout |-> "armed"]          \* the timer: armed, cleared, fired

\* resolve(v) of a promise: the first call settles it, later calls do nothing
resolve(p, v) ==
    IF p.state = "pending"
    THEN [p EXCEPT !.state = "resolved", !.value = v, !.settleCalls = @ + 1]
    ELSE [p EXCEPT !.settleCalls = @ + 1]

\* a reject that would overwrite a settled promise
reject_unguarded(p, text) ==
    [p EXCEPT !.state = "rejected", !.value = ErrorOf(text), !.settleCalls = @ + 1]

\* reject(new Error(text))
reject(p, text) ==
    IF p.state = "pending"
    THEN [p EXCEPT !.state = "rejected", !.value = ErrorOf(text), !.settleCalls = @ + 1]
    ELSE [p EXCEPT !.settleCalls = @ + 1]

\* eventSource.close(): an EventSource is CLOSED at once, a WebSocket starts
\* the closing handshake and is CLOSED when it ends
close(p) ==
    [p EXCEPT !.closeCalls = @ + 1,
              !.readyState = IF IsSocket(p.fn)
                             THEN (IF @ \in {"CLOSING", "CLOSED"} THEN @ ELSE "CLOSING")
                             ELSE "CLOSED"]

\* cleanup() of waitForImageGeneration and waitForCodeEditing
cleanup(p) ==
    close([p EXCEPT !.timeout = IF @ = "armed" THEN "cleared" ELSE @])

-----------------------------------------------------------------------------
(* waitForImageGeneration: EventSource, named events, 2 minute timer *)

waitForImageGeneration_timeout(p) ==
    reject(close([p EXCEPT !.timeout = "fired"]), "Image generation timed out")

waitForImageGeneration_complete(p, e) ==
    IF e.data.json # "object"
    THEN cleanup(reject(p, "SyntaxError"))
    ELSE IF Len(e.data.images) > 0
         THEN LET imageData == e.data.images[1] IN
              cleanup(resolve(p, Val("image", imageData.image_base64,
                    IF imageData.width # 0 THEN imageData.width ELSE DefaultImageSize,
                    IF imageData.height # 0 THEN imageData.height ELSE DefaultImageSize)))
         ELSE cleanup(resolve(p, Null))

waitForImageGeneration_error(p, e) ==
    IF e.data.json # "object"
    THEN cleanup(reject(p, "Unknown error in image generation"))
    ELSE cleanup(reject(p, OrElse(e.data.error, "Error generating image")))

waitForImageGeneration_onerror(p) ==
    cleanup(reject(p, "Error with SSE connection"))

-----------------------------------------------------------------------------
(* waitForCodeGeneration: EventSource, onmessage plus named events, 5 minute timer *)

\* an onmessage that would treat every status but completed as a failure
waitForCodeGeneration_onmessage_strict(p, e) ==
    IF e.data.json # "object"
    THEN close(reject(p, "SyntaxError"))
    ELSE IF e.data.status = "completed"
         THEN IF Truthy(e.data.content)
              THEN close(resolve(p, Content(e.data.content)))
              ELSE close(resolve(p, Null))
         ELSE close(reject(p, OrElse(e.data.message, "Error generating code")))

waitForCodeGeneration_onmessage(p, e) ==
    IF e.data.json # "object"
    THEN close(reject(p, "SyntaxError"))
    ELSE IF e.data.status = "completed"
         THEN IF Truthy(e.data.content)
              THEN close(resolve(p, Content(e.data.content)))
              ELSE close(resolve(p, Null))
         ELSE IF e.data.status = "failed" \/ e.data.status = "error"
              THEN close(reject(p, OrElse(e.data.message, "Error generating code")))
              ELSE p

waitForCodeGeneration_complete(p, e) ==
    IF e.data.json # "object"
    THEN close(reject(p, "SyntaxError"))
    ELSE IF Truthy(e.data.content)
         THEN close(resolve(p, Content(e.data.content)))
         ELSE close(resolve(p, Null))

waitForCodeGeneration_error(p, e) ==
    IF e.data.json # "object"
    THEN close(reject(p, "Unknown error in code generation"))
    ELSE close(reject(p, OrElse(e.data.error, "Error generating code")))

waitForCodeGeneration_onerror(p) ==
    close(reject(p, "Error with SSE connection"))

waitForCodeGeneration_timeout(p) ==
    IF p.readyState # "CLOSED"
    THEN reject(close([p EXCEPT !.timeout = "fired"]), "Code generation timed out")
    ELSE [p EXCEPT !.timeout = "fired"]

-----------------------------------------------------------------------------
(* waitForTaskResult: WebSocket, 2 minute timer *)

\* JSON.parse is outside any try: on malformed data the handler throws and
\* nothing else of it runs
waitForTaskResult_onmessage(p, e) ==
    IF e.data.json # "object"
    THEN p
    ELSE IF e.data.status = "completed"
         THEN close(resolve(p, Bare(e.data.data)))
         ELSE IF e.data.status = "failed" \/ e.data.status = "error"
              THEN close(reject(p, OrElse(e.data.message, "Unknown error occurred")))
              ELSE p

waitForTaskResult_onerror(p) ==
    close(reject(p, "Error with WebSocket connection"))

\* onopen and onclose only log
waitForTaskResult_onopen(p) == p

waitForTaskResult_onclose(p) == p

waitForTaskResult_timeout(p) ==
    IF p.readyState # "CLOSED"
    THEN reject(close([p EXCEPT !.timeout = "fired"]), "Task timed out")
    ELSE [p EXCEPT !.timeout = "fired"]

-----------------------------------------------------------------------------
(* waitForCodeEditing: EventSource, named events, 2 minute timer *)

waitForCodeEditing_timeout(p) ==
    reject(close([p EXCEPT !.timeout = "fired"]), "Code editing timed out")

waitForCodeEditing_complete(p, e) ==
    IF e.data.json # "object"
    THEN cleanup(reject(p, "SyntaxError"))
    ELSE IF Truthy(e.data.content)
         THEN cleanup(resolve(p, Content(e.data.content)))
         ELSE cleanup(resolve(p, Null))

waitForCodeEditing_error(p, e) ==
    IF e.data.json # "object"
    THEN cleanup(reject(p, "Unknown error in code editing"))
    ELSE cleanup(reject(p, OrElse(e.data.error, "Error editing code")))

waitForCodeEditing_onerror(p) ==
    cleanup(reject(p, "Error with SSE connection"))

-----------------------------------------------------------------------------
(* Dispatch of one event to the listeners a wait function registered, in    *)
(* the order it registered them: an 'error' event of an EventSource runs    *)
(* the addEventListener('error') listener and then the onerror handler.     *)

dispatchEvent(p, e) ==
    CASE p.fn = "waitForImageGeneration" ->
            (CASE e.type = "complete" -> waitForImageGeneration_complete(p, e)
               [] e.type = "error" ->
                    waitForImageGeneration_onerror(waitForImageGeneration_error(p, e))
               [] OTHER -> p)
      [] p.fn = "waitForCodeGeneration" ->
            (CASE e.type = "message" -> waitForCodeGeneration_onmessage(p, e)
               [] e.type = "complete" -> waitForCodeGeneration_complete(p, e)
               [] e.type = "error" ->
                    waitForCodeGeneration_onerror(waitForCodeGeneration_error(p, e))
               [] OTHER -> p)
      [] p.fn = "waitForCodeEditing" ->
            (CASE e.type = "complete" -> waitForCodeEditing_complete(p, e)
               [] e.type = "error" ->
                    waitForCodeEditing_onerror(waitForCodeEditing_error(p, e))
               [] OTHER -> p)
      [] p.fn = "waitForTaskResult" ->
            (CASE e.type = "message" -> waitForTaskResult_onmessage(p, e)
               [] e.type = "error" -> waitForTaskResult_onerror(p)
               [] e.type = "open" -> waitForTaskResult_onopen(p)
               [] e.type = "close" -> waitForTaskResult_onclose(p)
               [] OTHER -> p)

\* the callback handed to setTimeout
timerFires(p) ==
    CASE p.fn = "waitForImageGeneration" -> waitForImageGeneration_timeout(p)
      [] p.fn = "waitForCodeGeneration" -> waitForCodeGeneration_timeout(p)
      [] p.fn = "waitForTaskResult" -> waitForTaskResult_timeout(p)
      [] p.fn = "waitForCodeEditing" -> waitForCodeEditing_timeout(p)

\* the delay handed to setTimeout
TimeoutMs(fn) ==
    CASE fn = "waitForImageGeneration" -> ImageTimeoutMs
      [] fn = "waitForCodeGeneration" -> CodeTimeoutMs
      [] fn = "waitForTaskResult" -> TaskTimeoutMs
      [] fn = "waitForCodeEditing" -> EditTimeoutMs

Deadline(fn) == TimeoutMs(fn) \div MsPerMinute

\* the channel can deliver e now: data events need an open channel, a
\* connection error can also end the connection attempt
Deliverable(p, e) ==
    IF e = ConnectionError
    THEN p.readyState \in {"CONNECTING", "OPEN"}
    ELSE p.readyState = "OPEN"

-----------------------------------------------------------------------------
(* Classification of the events, as the protocol of each wait function tags *)
(* them: an EventSource message is tagged by its event name, and for        *)
(* waitForCodeGeneration and waitForTaskResult by its status property.      *)

Parsed(e) == e.data.json = "object"

\* tagged completed
IsCompleted(e) ==
    \/ e.type = "complete" /\ Parsed(e)
    \/ e.type = "message" /\ Parsed(e) /\ e.data.status = "completed"

\* tagged failed or error, with a reason in its message property
IsFailed(e) ==
    /\ e.type \in {"message", "error"}
    /\ Parsed(e)
    /\ e.data.status \in {"failed", "error"}

\* a terminal message, or the failure of the channel itself
IsTerminal(e) ==
    \/ e.type \in {"complete", "error"}
    \/ e.type = "message" /\ Parsed(e) /\ e.data.status \in TerminalStatuses

\* a progress / status message
IsNonTerminal(e) ==
    \/ e.type = "start"
    \/ e.type = "message" /\ Parsed(e) /\ e.data.status \notin TerminalStatuses

Settled(p) == p.state # "pending"

Released(p) == p.readyState \in {"CLOSING", "CLOSED"}

\* the payload a completed message carries for this wait, as the value the
\* wait is to resolve with; Null when the payload is empty or absent
PayloadOf(fn, e) ==
    CASE fn = "waitForImageGeneration" ->
            IF Len(e.data.images) > 0
            THEN Val("image", e.data.images[1].image_base64,
                     IF e.data.images[1].width # 0
                        THEN e.data.images[1].width ELSE DefaultImageSize,
                     IF e.data.images[1].height # 0
                        THEN e.data.images[1].height ELSE DefaultImageSize)
            ELSE Null
      [] fn = "waitForTaskResult" ->
            IF Truthy(e.data.data) THEN Bare(e.data.data) ELSE Null
      [] OTHER ->
            IF Truthy(e.data.content) THEN Content(e.data.content) ELSE Null

-----------------------------------------------------------------------------
(* The editor: its model3d shapes and its selection *)

\* the shapes the user drew: never of type model3d, and never deleted here
Drawings == {-1}

\* the ids createShapeId() hands out to model3d shapes
PreviewIds == 1..MaxShapes

\* shapeId = null
NoShape == 0

\* the x of the preview shape is the right edge of the selection plus this
PreviewGap == 60

\* the x of the image shape is the right edge of the selection plus this
ImageGap == 60

\* props.w of getDefaultProps(): (960 * 2) / 3
PreviewWidth == 640

\* the right edge of the page bounds of a drawing
DrawingMaxX == 100

\* getDefaultProps() of the model3d shape; exists: the shape is on the canvas,
\* x: its page x
DefaultProps ==
    [exists |-> FALSE, threeJsCode |-> "", gltfUrl |-> "", isGltf |-> FALSE,
     selectedShapes |-> {}, x |-> 0]

IsModel3d(id) == id \in PreviewIds

OnCanvas(sh, id) == id \in Drawings \/ (id \in PreviewIds /\ sh[id].exists)

\* editor.getSelectedShapes()
getSelectedShapes(sh, sel) == { id \in sel : OnCanvas(sh, id) }

\* the greatest of a non-empty set of numbers
Max(S) == CHOOSE m \in S : \A n \in S : n <= m

\* editor.getSelectionPageBounds().maxX of a non-empty selection
maxXOf(sh, selectedShapes) ==
    Max({ IF IsModel3d(id) THEN sh[id].x + PreviewWidth ELSE DrawingMaxX :
            id \in selectedShapes })

\* editor.createShape({id, type: "model3d", x, props})
createShape(sh, id, props) ==
    [sh EXCEPT ![id] =
        [k \in DOMAIN DefaultProps |->
            IF k = "exists" THEN TRUE
            ELSE IF k \in DOMAIN props THEN props[k] ELSE DefaultProps[k]]]

\* editor.updateShape({id, props}): the given props replace the shape's, the
\* others stay; a shape that is not on the canvas is not updated
updateShape(sh, id, props) ==
    IF id \in PreviewIds /\ sh[id].exists
    THEN [sh EXCEPT ![id] =
            [k \in DOMAIN DefaultProps |->
                IF k \in DOMAIN props THEN props[k] ELSE sh[id][k]]]
    ELSE sh

\* editor.deleteShape(id)
deleteShape(sh, id) ==
    IF id \in PreviewIds THEN [sh EXCEPT ![id] = DefaultProps] ELSE sh

-----------------------------------------------------------------------------
(* One invocation of an orchestrator *)

\* the task ids the service answers a submission with
TaskIds == {"task-1", "task-2"}

NoWait == [NewWait("none") EXCEPT !.readyState = "CLOSED", !.timeout = "cleared"]

NewCall(op, thinkingMode) ==
    [op |-> op,                    \* vibe3DCode or edit3DCode
     pc |-> "start",               \* the await the invocation is suspended at
     shapeId |-> NoShape,          \* the preview shape it works on
     thinkingMode |-> thinkingMode,
     created |-> FALSE,            \* it created the preview shape itself
     redo |-> FALSE,               \* it was started by the redo button
     drawable |-> {},              \* the selected shapes that are not model3d
     code |-> "",                  \* edit3DCode: the code it sends for editing
     blob |-> FALSE,               \* getSvgAsImage gave a blob (not null)
     result |-> "none",            \* returned or threw
     error |-> "",                 \* the text of the error thrown
     failedAt |-> "none",          \* the stage that failed
     fetches |-> 0,                \* submission requests sent
     response |-> "none",          \* how the submission request ended
     taskId |-> Absent,            \* the task id of the response
     subscribed |-> Absent,        \* the task id the channel was opened for
     channels |-> 0,               \* notification channels opened
     wait |-> NoWait,              \* the wait it awaits
     isEditing |-> FALSE,          \* what setIsEditing was last called with
     setIsEditing |-> <<>>,        \* what setIsEditing was called with, in order
     isRegenerating |-> FALSE]     \* what setIsRegenerating was last called with

NoCall == [NewCall("none", FALSE) EXCEPT !.pc = "idle"]

\* the invocation ends: it returned, or it threw the error text at the stage at
Ended(c, result, text, at) ==
    [c EXCEPT !.pc = "done", !.result = result, !.error = text, !.failedAt = at]

Step(sh, nid, c) == [shapes |-> sh, nextId |-> nid, call |-> c]

\* the wait function an invocation calls
WaitFnOf(c) ==
    IF c.op = "edit3DCode" THEN "waitForCodeEditing"
    ELSE IF c.thinkingMode THEN "waitForTaskResult"
    ELSE "waitForCodeGeneration"

-----------------------------------------------------------------------------
(* vibe3DCode(editor, shapeId, thinkingMode) *)

\* a catch that would delete every preview shape that holds no result
vibe3DCode_catch_sweep(sh, nid, c, text, at) ==
    Step([id \in PreviewIds |->
            IF id = c.shapeId \/ (sh[id].threeJsCode = "" /\ sh[id].gltfUrl = "")
            THEN DefaultProps ELSE sh[id]],
         nid, Ended(c, "threw", text, at))

\* catch (e) { editor.deleteShape(shapeId); throw e }
vibe3DCode_catch(sh, nid, c, text, at) ==
    Step(deleteShape(sh, c.shapeId), nid, Ended(c, "threw", text, at))

\* the same placing the shape at the right edge of the selection
vibe3DCode_start_noGap(sh, sel, nid, c, shapeId) ==
    LET selectedShapes == getSelectedShapes(sh, sel) IN
    IF selectedShapes = {}
    THEN Step(sh, nid, Ended(c, "threw", "First select something to make real.", "select"))
    ELSE IF shapeId = NoShape
         THEN Step(createShape(sh, nid, [x |-> maxXOf(sh, selectedShapes),
                                         threeJsCode |-> "",
                                         selectedShapes |-> selectedShapes,
                                         gltfUrl |-> ""]),
                   nid + 1,
                   [c EXCEPT !.pc = "getSvg", !.shapeId = nid, !.created = TRUE,
                             !.drawable = { s \in selectedShapes : ~IsModel3d(s) }])
         ELSE Step(sh, nid,
                   [c EXCEPT !.pc = "getSvg", !.shapeId = shapeId,
                             !.drawable = { s \in selectedShapes : ~IsModel3d(s) }])

\* up to the first await: the selection check and the creation of the shape
vibe3DCode_start(sh, sel, nid, c, shapeId) ==
    LET selectedShapes == getSelectedShapes(sh, sel) IN
    IF selectedShapes = {}
    THEN Step(sh, nid, Ended(c, "threw", "First select something to make real.", "select"))
    ELSE IF shapeId = NoShape
         THEN Step(createShape(sh, nid, [x |-> maxXOf(sh, selectedShapes) + PreviewGap,
                                         threeJsCode |-> "",
                                         selectedShapes |-> selectedShapes,
                                         gltfUrl |-> ""]),
                   nid + 1,
                   [c EXCEPT !.pc = "getSvg", !.shapeId = nid, !.created = TRUE,
                             !.drawable = { s \in selectedShapes : ~IsModel3d(s) }])
         ELSE Step(sh, nid,
                   [c EXCEPT !.pc = "getSvg", !.shapeId = shapeId,
                             !.drawable = { s \in selectedShapes : ~IsModel3d(s) }])

\* after await editor.getSvg(...): if (!svg) return
vibe3DCode_afterGetSvg(sh, nid, c, svg) ==
    IF ~svg
    THEN Step(sh, nid, Ended(c, "returned", "", "getSvg"))
    ELSE Step(sh, nid, [c EXCEPT !.pc = "getSvgAsImage"])

\* after await getSvgAsImage(...): the blob goes to blobToBase64 unchecked
vibe3DCode_afterGetSvgAsImage(sh, nid, c, blob) ==
    Step(sh, nid, [c EXCEPT !.pc = "blobToBase64", !.blob = blob])

\* after await blobToBase64(blob!): outside the try, then the fetch inside it
vibe3DCode_afterBlobToBase64(sh, nid, c, threw) ==
    IF threw
    THEN Step(sh, nid, Ended(c, "threw", "TypeError", "encode"))
    ELSE Step(sh, nid, [c EXCEPT !.pc = "fetch", !.fetches = @ + 1])

\* the same without the check of response.ok
vibe3DCode_afterFetch_unchecked(sh, nid, c, response) ==
    IF response = "rejected"
    THEN vibe3DCode_catch(sh, nid, c, "Failed to fetch", "submit")
    ELSE Step(sh, nid, [c EXCEPT !.pc = "wait", !.channels = @ + 1,
                                 !.subscribed = c.taskId,
                                 !.wait = NewWait(WaitFnOf(c))])

\* after await fetch(...): a rejected fetch throws; a response that is not ok
\* throws the API error with the detail of its JSON body; then the wait is called
vibe3DCode_afterFetch(sh, nid, c, response) ==
    IF response = "rejected"
    THEN vibe3DCode_catch(sh, nid, c, "Failed to fetch", "submit")
    ELSE IF response = "notOk"
         THEN vibe3DCode_catch(sh, nid, c, "API error", "submit")
         ELSE Step(sh, nid, [c EXCEPT !.pc = "wait", !.channels = @ + 1,
                                      !.subscribed = c.taskId,
                                      !.wait = NewWait(WaitFnOf(c))])

\* the same writing the outcome of the wait whatever it is
vibe3DCode_afterTaskResult_unchecked(sh, nid, c) ==
    Step(updateShape(sh, c.shapeId, [gltfUrl |-> c.wait.value.text, isGltf |-> TRUE]),
         nid, Ended(c, "returned", "", "none"))

\* after await waitForTaskResult(taskId)
vibe3DCode_afterTaskResult(sh, nid, c) ==
    IF c.wait.state = "rejected"
    THEN vibe3DCode_catch(sh, nid, c, c.wait.value.text, "wait")
    ELSE LET gltfUrl == c.wait.value IN
         Step(updateShape(sh, c.shapeId,
                          IF gltfUrl.tag = "undefined"
                          THEN [isGltf |-> TRUE]
                          ELSE [gltfUrl |-> gltfUrl.text, isGltf |-> TRUE]),
              nid, Ended(c, "returned", "", "none"))

\* the same submitting again when the wait rejected
vibe3DCode_afterCodeGeneration_retry(sh, nid, c) ==
    IF c.wait.state = "rejected"
    THEN Step(sh, nid, [c EXCEPT !.pc = "fetch", !.fetches = @ + 1])
    ELSE LET generatedCodeData == c.wait.value IN
         IF generatedCodeData.tag = "content" /\ Truthy(generatedCodeData.text)
         THEN LET threeJsCode == processThreeJsCode(generatedCodeData.text) IN
              IF Len(threeJsCode) < MinCodeLength
              THEN vibe3DCode_catch(sh, nid, c,
                        "Could not generate a 3D model from those wireframes.", "result")
              ELSE Step(updateShape(sh, c.shapeId,
                                    [threeJsCode |-> threeJsCode, isGltf |-> FALSE]),
                        nid, Ended(c, "returned", "", "none"))
         ELSE vibe3DCode_catch(sh, nid, c, "No code was generated", "result")

\* after await waitForCodeGeneration(task_id)
vibe3DCode_afterCodeGeneration(sh, nid, c) ==
    IF c.wait.state = "rejected"
    THEN vibe3DCode_catch(sh, nid, c, c.wait.value.text, "wait")
    ELSE LET generatedCodeData == c.wait.value IN
         IF generatedCodeData.tag = "content" /\ Truthy(generatedCodeData.text)
         THEN LET threeJsCode == processThreeJsCode(generatedCodeData.text) IN
              IF Len(threeJsCode) < MinCodeLength
              THEN vibe3DCode_catch(sh, nid, c,
                        "Could not generate a 3D model from those wireframes.", "result")
              ELSE Step(updateShape(sh, c.shapeId,
                                    [threeJsCode |-> threeJsCode, isGltf |-> FALSE]),
                        nid, Ended(c, "returned", "", "none"))
         ELSE vibe3DCode_catch(sh, nid, c, "No code was generated", "result")

-----------------------------------------------------------------------------
(* edit3DCode(editor, setIsEditing) *)

\* a catch that would delete the shape, as that of vibe3DCode does
edit3DCode_throw_deleting(sh, nid, c, text, at) ==
    Step(deleteShape(sh, c.shapeId), nid,
         [Ended(c, "threw", text, at) EXCEPT
             !.isEditing = FALSE, !.setIsEditing = Append(@, FALSE)])

\* a throw that would skip the finally block
edit3DCode_throw_noFinally(sh, nid, c, text, at) ==
    Step(sh, nid, Ended(c, "threw", text, at))

\* throw inside the try: catch rethrows, finally calls setIsEditing(false)
edit3DCode_throw(sh, nid, c, text, at) ==
    Step(sh, nid, [Ended(c, "threw", text, at) EXCEPT
                      !.isEditing = FALSE, !.setIsEditing = Append(@, FALSE)])

\* the same without the check that something guides the edit
edit3DCode_start_noGuide(sh, sel, nid, c0) ==
    LET c == [c0 EXCEPT !.isEditing = TRUE, !.setIsEditing = Append(@, TRUE)]
        selectedShapes == getSelectedShapes(sh, sel)
        model3dShapes == { s \in selectedShapes : IsModel3d(s) }
        nonModel3dShapes == { s \in selectedShapes : ~IsModel3d(s) }
    IN  IF selectedShapes = {}
        THEN edit3DCode_throw(sh, nid, c, "First select shapes for editing.", "select")
        ELSE IF model3dShapes = {}
        THEN edit3DCode_throw(sh, nid, c, "First select a 3D model to edit.", "select")
        ELSE IF Cardinality(model3dShapes) > 1
        THEN edit3DCode_throw(sh, nid, c, "Select only one 3D model at a time.", "select")
        ELSE LET model3dShape == CHOOSE s \in model3dShapes : TRUE
                 threeJsCode == sh[model3dShape].threeJsCode
             IN  IF threeJsCode = "" \/ Len(threeJsCode) < MinEditableCodeLength
                 THEN edit3DCode_throw(sh, nid, c,
                        "The selected 3D model does not contain valid code.", "select")
                 ELSE Step(sh, nid, [c EXCEPT !.pc = "getSvg", !.shapeId = model3dShape,
                                              !.drawable = nonModel3dShapes,
                                              !.code = threeJsCode])

\* setIsEditing(true) and the validation of the selection
edit3DCode_start(sh, sel, nid, c0) ==
    LET c == [c0 EXCEPT !.isEditing = TRUE, !.setIsEditing = Append(@, TRUE)]
        selectedShapes == getSelectedShapes(sh, sel)
        model3dShapes == { s \in selectedShapes : IsModel3d(s) }
        nonModel3dShapes == { s \in selectedShapes : ~IsModel3d(s) }
    IN  IF selectedShapes = {}
        THEN edit3DCode_throw(sh, nid, c, "First select shapes for editing.", "select")
        ELSE IF model3dShapes = {}
        THEN edit3DCode_throw(sh, nid, c, "First select a 3D model to edit.", "select")
        ELSE IF Cardinality(model3dShapes) > 1
        THEN edit3DCode_throw(sh, nid, c, "Select only one 3D model at a time.", "select")
        ELSE IF nonModel3dShapes = {}
        THEN edit3DCode_throw(sh, nid, c,
                "Select at least one drawing or shape to guide the editing.", "select")
        ELSE LET model3dShape == CHOOSE s \in model3dShapes : TRUE
                 threeJsCode == sh[model3dShape].threeJsCode
             IN  IF threeJsCode = "" \/ Len(threeJsCode) < MinEditableCodeLength
                 THEN edit3DCode_throw(sh, nid, c,
                        "The selected 3D model does not contain valid code.", "select")
                 ELSE Step(sh, nid, [c EXCEPT !.pc = "getSvg", !.shapeId = model3dShape,
                                              !.drawable = nonModel3dShapes,
                                              !.code = threeJsCode])

edit3DCode_afterGetSvg(sh, nid, c, svg) ==
    IF ~svg
    THEN edit3DCode_throw(sh, nid, c, "Could not generate SVG from selected shapes.", "getSvg")
    ELSE Step(sh, nid, [c EXCEPT !.pc = "getSvgAsImage"])

edit3DCode_afterGetSvgAsImage(sh, nid, c, blob) ==
    IF ~blob
    THEN edit3DCode_throw(sh, nid, c, "Could not generate image from SVG.", "encode")
    ELSE Step(sh, nid, [c EXCEPT !.pc = "blobToBase64", !.blob = blob])

edit3DCode_afterBlobToBase64(sh, nid, c, threw) ==
    Step(sh, nid, [c EXCEPT !.pc = "fetch", !.fetches = @ + 1])

edit3DCode_afterFetch(sh, nid, c, response) ==
    IF response = "rejected"
    THEN edit3DCode_throw(sh, nid, c, "Failed to fetch", "submit")
    ELSE IF response = "notOk"
         THEN edit3DCode_throw(sh, nid, c, "API error", "submit")
         ELSE Step(sh, nid, [c EXCEPT !.pc = "wait", !.channels = @ + 1,
                                      !.subscribed = c.taskId,
                                      !.wait = NewWait(WaitFnOf(c))])

\* after await waitForCodeEditing(task_id)
edit3DCode_afterCodeEditing(sh, nid, c) ==
    IF c.wait.state = "rejected"
    THEN edit3DCode_throw(sh, nid, c, c.wait.value.text, "wait")
    ELSE LET editedCodeData == c.wait.value IN
         IF editedCodeData.tag = "content" /\ Truthy(editedCodeData.text)
         THEN LET editedThreeJsCode == processThreeJsCode(editedCodeData.text) IN
              IF Len(editedThreeJsCode) < MinCodeLength
              THEN edit3DCode_throw(sh, nid, c,
                        "Could not generate edited 3D model code.", "result")
              ELSE Step(updateShape(sh, c.shapeId, [threeJsCode |-> editedThreeJsCode]),
                        nid,
                        [Ended(c, "returned", "", "none") EXCEPT
                            !.isEditing = FALSE, !.setIsEditing = Append(@, FALSE)])
         ELSE edit3DCode_throw(sh, nid, c, "No code was generated from the edit", "result")

-----------------------------------------------------------------------------
(* improveDrawing(editor) *)

\* an invocation of improveDrawing: the shapes it found selected, where it is
\* suspended, its wait, and the assets and image shapes it created
NewImprove ==
    [pc |-> "start",
     selectedShapes |-> {},        \* editor.getSelectedShapes() at its start
     drawableShapes |-> {},
     result |-> "none",            \* returned or threw
     error |-> "",
     fetches |-> 0,
     channels |-> 0,
     subscribed |-> Absent,        \* the task id the channel was opened for
     wait |-> NoWait,
     assets |-> <<>>,              \* editor.createAssets
     images |-> <<>>]              \* editor.createShape of type image

NoImprove == [NewImprove EXCEPT !.pc = "idle"]

\* a step of the invocation: the invocation and the selection of the editor
ImproveStep(c, sel) == [imp |-> c, selected |-> sel]

\* throw: before the try, or inside it where the catch rethrows
improveDrawing_throw(c, sel, text) ==
    ImproveStep([c EXCEPT !.pc = "done", !.result = "threw", !.error = text], sel)

\* up to the first await: the two checks of the selection
improveDrawing_start(sh, sel, c) ==
    LET selectedShapes == getSelectedShapes(sh, sel)
        drawableShapes == { s \in selectedShapes : ~IsModel3d(s) }
    IN  IF selectedShapes = {}
        THEN improveDrawing_throw(c, sel, "First select something to improve.")
        ELSE IF drawableShapes = {}
        THEN improveDrawing_throw(c, sel, "No drawable shapes selected.")
        ELSE ImproveStep([c EXCEPT !.pc = "getSvg",
                                   !.selectedShapes = selectedShapes,
                                   !.drawableShapes = drawableShapes], sel)

improveDrawing_afterGetSvg(c, sel, svg) ==
    IF ~svg
    THEN improveDrawing_throw(c, sel, "Could not generate SVG from selection.")
    ELSE ImproveStep([c EXCEPT !.pc = "getSvgAsImage"], sel)

improveDrawing_afterGetSvgAsImage(c, sel, blob) ==
    IF ~blob
    THEN improveDrawing_throw(c, sel, "Could not generate image from SVG.")
    ELSE ImproveStep([c EXCEPT !.pc = "blobToBase64"], sel)

\* after await blobToBase64(blob): the request is sent
improveDrawing_afterBlobToBase64(c, sel) ==
    ImproveStep([c EXCEPT !.pc = "fetch", !.fetches = @ + 1], sel)

\* after await fetch(...) and await response.json(): the wait is called
\* with the task id of the response
improveDrawing_afterFetch(c, sel, response, taskId) ==
    IF response = "rejected"
    THEN improveDrawing_throw(c, sel, "Failed to fetch")
    ELSE IF response = "notOk"
         THEN improveDrawing_throw(c, sel, "API error")
         ELSE ImproveStep([c EXCEPT !.pc = "wait", !.channels = @ + 1,
                                    !.subscribed = taskId,
                                    !.wait = NewWait("waitForImageGeneration")], sel)

\* createShapeId() for the n-th image shape: an id that no drawing and no
\* preview shape has
ImageShapeId(n) == 0 - (n + 1)

\* the same creating the asset and the shape whatever the wait gave
improveDrawing_afterImageGeneration_unchecked(sh, c, sel) ==
    LET generatedImageData == c.wait.value
        assetId == Len(c.assets) + 1
        newShapeId == ImageShapeId(Len(c.images) + 1)
    IN  IF getSelectedShapes(sh, sel) = {}
        THEN improveDrawing_throw(c, sel, "Could not determine selection bounds.")
        ELSE ImproveStep(
               [c EXCEPT !.pc = "done", !.result = "returned",
                         !.assets = Append(@, [id |-> assetId,
                                               src |-> generatedImageData.text,
                                               w |-> generatedImageData.width,
                                               h |-> generatedImageData.height]),
                         !.images = Append(@, [id |-> newShapeId,
                                               assetId |-> assetId,
                                               x |-> maxXOf(sh, getSelectedShapes(sh, sel)) + ImageGap,
                                               w |-> generatedImageData.width,
                                               h |-> generatedImageData.height])],
               {newShapeId})

\* after await waitForImageGeneration(task_id): with an image, the bounds of
\* the selection the editor has now, the asset, the image shape to the right
\* of the bounds, and its selection
improveDrawing_afterImageGeneration(sh, c, sel) ==
    IF c.wait.state = "rejected"
    THEN improveDrawing_throw(c, sel, c.wait.value.text)
    ELSE LET generatedImageData == c.wait.value
             assetId == Len(c.assets) + 1
             newShapeId == ImageShapeId(Len(c.images) + 1)
         IN  IF generatedImageData.tag # "image"
             THEN improveDrawing_throw(c, sel, "No image was generated")
             ELSE IF getSelectedShapes(sh, sel) = {}
             THEN improveDrawing_throw(c, sel, "Could not determine selection bounds.")
             ELSE ImproveStep(
                    [c EXCEPT !.pc = "done", !.result = "returned",
                              !.assets = Append(@, [id |-> assetId,
                                                    src |-> generatedImageData.text,
                                                    w |-> generatedImageData.width,
                                                    h |-> generatedImageData.height]),
                              !.images = Append(@, [id |-> newShapeId,
                                                    assetId |-> assetId,
                                                    x |-> maxXOf(sh, getSelectedShapes(sh, sel)) + ImageGap,
                                                    w |-> generatedImageData.width,
                                                    h |-> generatedImageData.height])],
                    {newShapeId})

\* the wait of the invocation handled an event: if that settled the promise,
\* the invocation runs on
improveDrawing_afterWaitEvent(sh, c, sel, p) ==
    IF Settled(p)
    THEN improveDrawing_afterImageGeneration(sh, [c EXCEPT !.wait = p], sel)
    ELSE ImproveStep([c EXCEPT !.wait = p], sel)

-----------------------------------------------------------------------------
(* The steps of an invocation, whichever orchestrator runs it *)

afterGetSvg(sh, nid, c, svg) ==
    IF c.op = "edit3DCode" THEN edit3DCode_afterGetSvg(sh, nid, c, svg)
    ELSE vibe3DCode_afterGetSvg(sh, nid, c, svg)

afterGetSvgAsImage(sh, nid, c, blob) ==
    IF c.op = "edit3DCode" THEN edit3DCode_afterGetSvgAsImage(sh, nid, c, blob)
    ELSE vibe3DCode_afterGetSvgAsImage(sh, nid, c, blob)

afterBlobToBase64(sh, nid, c, threw) ==
    IF c.op = "edit3DCode" THEN edit3DCode_afterBlobToBase64(sh, nid, c, threw)
    ELSE vibe3DCode_afterBlobToBase64(sh, nid, c, threw)

\* the response of the service: only an ok response carries a task id
afterFetch(sh, nid, c, response, taskId) ==
    LET answered == [c EXCEPT !.response = response,
                              !.taskId = IF response = "ok" THEN taskId ELSE Absent]
    IN  IF c.op = "edit3DCode"
        THEN edit3DCode_afterFetch(sh, nid, answered, response)
        ELSE vibe3DCode_afterFetch(sh, nid, answered, response)

afterWait(sh, nid, c) ==
    IF c.op = "edit3DCode" THEN edit3DCode_afterCodeEditing(sh, nid, c)
    ELSE IF c.thinkingMode THEN vibe3DCode_afterTaskResult(sh, nid, c)
    ELSE vibe3DCode_afterCodeGeneration(sh, nid, c)

\* the wait the invocation awaits handled an event: if that settled the
\* promise, the invocation runs on
afterWaitEvent(sh, nid, c, p) ==
    IF Settled(p)
    THEN afterWait(sh, nid, [c EXCEPT !.wait = p])
    ELSE Step(sh, nid, [c EXCEPT !.wait = p])

\* the redo button, after await vibe3DCode(...) returned:
\* setIsRegenerating(false) and editor.selectNone()
redo_afterVibe3DCode(c) ==
    IF c.redo /\ c.pc = "done" /\ c.result = "returned"
    THEN [c EXCEPT !.isRegenerating = FALSE]
    ELSE c

redo_selection(c, sel) ==
    IF c.redo /\ c.pc = "done" /\ c.result = "returned" THEN {} ELSE sel

\* the events the model delivers to the wait an invocation awaits: those of
\* the wait function with no message and no error property, and for content
\* no code, the fenced scene or the scene that is too short
CallEvents(fn) ==
    { e \in Events(fn) :
        /\ e.data.message = Absent
        /\ e.data.error = Absent
        /\ e.data.content \in {Absent, "", Join(FencedScene), Join(TinyScene)} }

-----------------------------------------------------------------------------
(* SpecWait: one call of a wait function *)

InitWait ==
    /\ \E fn \in WaitFns : w = NewWait(fn)
    /\ clock = 0
    /\ ev = NoEvent
    /\ shapes = [id \in PreviewIds |-> DefaultProps]
    /\ selected = {}
    /\ nextId = 1
    /\ call = NoCall
    /\ callB = NoCall
    /\ san = NoSan
    /\ snap = NoSnap
    /\ view = NoView
    /\ imp = NoImprove

\* the connection is established
WaitOpen ==
    /\ w.readyState = "CONNECTING"
    /\ w' = dispatchEvent([w EXCEPT !.readyState = "OPEN"], OpenEvent)
    /\ ev' = OpenEvent
    /\ UNCHANGED clock
    /\ UNCHANGED outsideWait

\* the channel delivers one event
WaitDeliver ==
    \E e \in Events(w.fn) :
        /\ Deliverable(w, e)
        /\ w' = dispatchEvent(w, e)
        /\ ev' = e
        /\ UNCHANGED clock
        /\ UNCHANGED outsideWait
    /\ UNCHANGED outsideWait

\* the WebSocket is closed: the server closed it, or the closing handshake
\* that close() started has ended
WaitSocketClosed ==
    /\ IsSocket(w.fn)
    /\ w.readyState \in {"OPEN", "CLOSING"}
    /\ w' = dispatchEvent([w EXCEPT !.readyState = "CLOSED"], CloseEvent)
    /\ ev' = CloseEvent
    /\ UNCHANGED clock
    /\ UNCHANGED outsideWait

\* the timer fires when its delay has passed
WaitTimeout ==
    /\ w.timeout = "armed"
    /\ clock = Deadline(w.fn)
    /\ w' = timerFires(w)
    /\ ev' = TimerEvent
    /\ UNCHANGED clock
    /\ UNCHANGED outsideWait

\* a minute passes; an armed timer fires before time moves past its delay
WaitTick ==
    /\ clock < MaxClock
    /\ ~(w.timeout = "armed" /\ clock >= Deadline(w.fn))
    /\ clock' = clock + 1
    /\ UNCHANGED <<w, ev>>
    /\ UNCHANGED outsideWait

NextWait ==
    \/ WaitOpen
    \/ WaitDeliver
    \/ WaitSocketClosed
    \/ WaitTimeout
    \/ WaitTick

SpecWait == InitWait /\ [][NextWait]_vars


-----------------------------------------------------------------------------
(* Spec: the orchestrators on one canvas, one invocation at a time *)

Init ==
    /\ w = NoWait
    /\ clock = 0
    /\ ev = NoEvent
    /\ shapes = [id \in PreviewIds |-> DefaultProps]
    /\ selected = {}
    /\ nextId = 1
    /\ call = NoCall
    /\ callB = NoCall
    /\ san = NoSan
    /\ snap = NoSnap
    /\ view = NoView
    /\ imp = NoImprove

Idle == call.pc \in {"idle", "done"}

\* an invocation took a step: the canvas and the invocation change, and the
\* redo button runs on when the vibe3DCode it awaited has returned
Apply(r) ==
    /\ shapes' = r.shapes
    /\ nextId' = r.nextId
    /\ call' = redo_afterVibe3DCode(r.call)
    /\ selected' = redo_selection(r.call, selected)
    /\ UNCHANGED outsideSpec

\* the selections the user can make: shapes of the canvas
Selections(sh) ==
    { S \in SUBSET (Drawings \cup PreviewIds) : \A id \in S : OnCanvas(sh, id) }

\* the user selects shapes and starts a generation:
\* vibe3DCode(editor, null, thinkingMode)
CallVibe3DCode ==
    \E S \in Selections(shapes), thinkingMode \in BOOLEAN :
        /\ Idle
        /\ nextId <= MaxShapes
        /\ LET r == vibe3DCode_start(shapes, S, nextId,
                                     NewCall("vibe3DCode", thinkingMode), NoShape)
           IN  /\ shapes' = r.shapes
               /\ nextId' = r.nextId
               /\ call' = r.call
               /\ selected' = S
        /\ UNCHANGED outsideSpec

\* the redo button of a preview shape: setIsRegenerating(true),
\* editor.setSelectedShapes(shape.props.selectedShapes) and
\* await vibe3DCode(this.editor, shape.id)
ClickRedo ==
    \E id \in PreviewIds :
        /\ Idle
        /\ shapes[id].exists
        /\ LET sel == shapes[id].selectedShapes
               r == vibe3DCode_start(shapes, sel, nextId,
                        [NewCall("vibe3DCode", FALSE) EXCEPT !.redo = TRUE,
                                                            !.shapeId = id,
                                                            !.isRegenerating = TRUE],
                        id)
           IN  /\ shapes' = r.shapes
               /\ nextId' = r.nextId
               /\ call' = r.call
               /\ selected' = sel
        /\ UNCHANGED outsideSpec

\* the user selects shapes and starts an edit: edit3DCode(editor, setIsEditing)
CallEdit3DCode ==
    \E S \in Selections(shapes) :
        /\ Idle
        /\ LET r == edit3DCode_start(shapes, S, nextId, NewCall("edit3DCode", FALSE))
           IN  /\ shapes' = r.shapes
               /\ nextId' = r.nextId
               /\ call' = r.call
               /\ selected' = S
        /\ UNCHANGED outsideSpec

\* editor.getSvg answers: undefined when there is nothing to draw
GetSvgDone ==
    \E svg \in BOOLEAN :
        /\ call.pc = "getSvg"
        /\ svg => call.drawable # {}
        /\ Apply(afterGetSvg(shapes, nextId, call, svg))

\* getSvgAsImage answers: a blob or null
GetSvgAsImageDone ==
    \E blob \in BOOLEAN :
        /\ call.pc = "getSvgAsImage"
        /\ Apply(afterGetSvgAsImage(shapes, nextId, call, blob))

\* blobToBase64 answers; given null for a blob it may throw instead
BlobToBase64Done ==
    \E threw \in BOOLEAN :
        /\ call.pc = "blobToBase64"
        /\ threw => ~call.blob
        /\ Apply(afterBlobToBase64(shapes, nextId, call, threw))

\* the submission request ends: a network error, a non-OK or an OK response
FetchDone ==
    \E response \in {"rejected", "notOk", "ok"}, taskId \in TaskIds :
        /\ call.pc = "fetch"
        /\ Apply(afterFetch(shapes, nextId, call, response, taskId))

\* the channel of the wait the invocation awaits is established
CallWaitOpen ==
    /\ call.pc = "wait"
    /\ call.wait.readyState = "CONNECTING"
    /\ Apply(afterWaitEvent(shapes, nextId, call,
                dispatchEvent([call.wait EXCEPT !.readyState = "OPEN"], OpenEvent)))

\* the channel of the invocation delivers one event
CallWaitDeliver ==
    /\ call.pc = "wait"
    /\ \E e \in CallEvents(call.wait.fn) :
        /\ Deliverable(call.wait, e)
        /\ Apply(afterWaitEvent(shapes, nextId, call, dispatchEvent(call.wait, e)))

\* the WebSocket of the invocation is closed
CallWaitSocketClosed ==
    /\ call.pc = "wait"
    /\ IsSocket(call.wait.fn)
    /\ call.wait.readyState \in {"OPEN", "CLOSING"}
    /\ Apply(afterWaitEvent(shapes, nextId, call,
                dispatchEvent([call.wait EXCEPT !.readyState = "CLOSED"], CloseEvent)))

\* the timer of the wait of the invocation fires
CallWaitTimeout ==
    /\ call.pc = "wait"
    /\ call.wait.timeout = "armed"
    /\ Apply(afterWaitEvent(shapes, nextId, call, timerFires(call.wait)))

Next ==
    \/ CallVibe3DCode
    \/ ClickRedo
    \/ CallEdit3DCode
    \/ GetSvgDone
    \/ GetSvgAsImageDone
    \/ BlobToBase64Done
    \/ FetchDone
    \/ CallWaitOpen
    \/ CallWaitDeliver
    \/ CallWaitSocketClosed
    \/ CallWaitTimeout

Spec == Init /\ [][Next]_vars

-----------------------------------------------------------------------------
(* SpecPair: two invocations, A (call) and B (callB), each started once and *)
(* interleaved at their awaits, on a canvas that holds a generated preview  *)

Slots == {"A", "B"}

CallOf(slot) == IF slot = "A" THEN call ELSE callB

\* the preview shape a generation on the drawing made, with its code
GeneratedShape ==
    [exists |-> TRUE, threeJsCode |-> processThreeJsCode(Join(FencedScene)),
     gltfUrl |-> "", isGltf |-> FALSE, selectedShapes |-> Drawings,
     x |-> DrawingMaxX + PreviewGap]

InitPair ==
    /\ w = NoWait
    /\ clock = 0
    /\ ev = NoEvent
    /\ shapes = [id \in PreviewIds |-> IF id = 1 THEN GeneratedShape ELSE DefaultProps]
    /\ selected = {}
    /\ nextId = 2
    /\ call = NoCall
    /\ callB = NoCall
    /\ san = NoSan
    /\ snap = NoSnap
    /\ view = NoView
    /\ imp = NoImprove

\* the invocation of a slot took a step
PairApply(slot, r, sel) ==
    /\ shapes' = r.shapes
    /\ nextId' = r.nextId
    /\ selected' = sel
    /\ IF slot = "A"
       THEN call' = redo_afterVibe3DCode(r.call) /\ UNCHANGED callB
       ELSE callB' = redo_afterVibe3DCode(r.call) /\ UNCHANGED call
    /\ UNCHANGED outsidePair

PairCallVibe3DCode ==
    \E slot \in Slots, S \in Selections(shapes), thinkingMode \in BOOLEAN :
        /\ CallOf(slot).pc = "idle"
        /\ nextId <= MaxShapes
        /\ PairApply(slot,
                     vibe3DCode_start(shapes, S, nextId,
                                      NewCall("vibe3DCode", thinkingMode), NoShape),
                     S)

PairClickRedo ==
    \E slot \in Slots, id \in PreviewIds :
        /\ CallOf(slot).pc = "idle"
        /\ shapes[id].exists
        /\ PairApply(slot,
                     vibe3DCode_start(shapes, shapes[id].selectedShapes, nextId,
                        [NewCall("vibe3DCode", FALSE) EXCEPT !.redo = TRUE,
                                                            !.shapeId = id,
                                                            !.isRegenerating = TRUE],
                        id),
                     shapes[id].selectedShapes)

PairCallEdit3DCode ==
    \E slot \in Slots, S \in Selections(shapes) :
        /\ CallOf(slot).pc = "idle"
        /\ PairApply(slot,
                     edit3DCode_start(shapes, S, nextId, NewCall("edit3DCode", FALSE)),
                     S)

PairGetSvgDone ==
    \E slot \in Slots, svg \in BOOLEAN :
        /\ CallOf(slot).pc = "getSvg"
        /\ svg => CallOf(slot).drawable # {}
        /\ LET r == afterGetSvg(shapes, nextId, CallOf(slot), svg)
           IN  PairApply(slot, r, redo_selection(r.call, selected))

PairGetSvgAsImageDone ==
    \E slot \in Slots, blob \in BOOLEAN :
        /\ CallOf(slot).pc = "getSvgAsImage"
        /\ LET r == afterGetSvgAsImage(shapes, nextId, CallOf(slot), blob)
           IN  PairApply(slot, r, redo_selection(r.call, selected))

PairBlobToBase64Done ==
    \E slot \in Slots, threw \in BOOLEAN :
        /\ CallOf(slot).pc = "blobToBase64"
        /\ threw => ~CallOf(slot).blob
        /\ LET r == afterBlobToBase64(shapes, nextId, CallOf(slot), threw)
           IN  PairApply(slot, r, redo_selection(r.call, selected))

\* the service gives the two submissions different task ids
TaskIdOf(slot) == IF slot = "A" THEN "task-1" ELSE "task-2"

PairFetchDone ==
    \E slot \in Slots, response \in {"rejected", "notOk", "ok"} :
        /\ CallOf(slot).pc = "fetch"
        /\ LET r == afterFetch(shapes, nextId, CallOf(slot), response, TaskIdOf(slot))
           IN  PairApply(slot, r, redo_selection(r.call, selected))

\* the wait of the invocation of a slot handles p, the outcome of an event
PairWaitEvent(slot, p) ==
    LET r == afterWaitEvent(shapes, nextId, CallOf(slot), p)
    IN  PairApply(slot, r, redo_selection(r.call, selected))

PairWaitOpen ==
    \E slot \in Slots :
        /\ CallOf(slot).pc = "wait"
        /\ CallOf(slot).wait.readyState = "CONNECTING"
        /\ PairWaitEvent(slot,
                dispatchEvent([CallOf(slot).wait EXCEPT !.readyState = "OPEN"], OpenEvent))

PairWaitDeliver ==
    \E slot \in Slots :
        /\ CallOf(slot).pc = "wait"
        /\ \E e \in CallEvents(CallOf(slot).wait.fn) :
            /\ Deliverable(CallOf(slot).wait, e)
            /\ PairWaitEvent(slot, dispatchEvent(CallOf(slot).wait, e))

PairWaitSocketClosed ==
    \E slot \in Slots :
        /\ CallOf(slot).pc = "wait"
        /\ IsSocket(CallOf(slot).wait.fn)
        /\ CallOf(slot).wait.readyState \in {"OPEN", "CLOSING"}
        /\ PairWaitEvent(slot,
                dispatchEvent([CallOf(slot).wait EXCEPT !.readyState = "CLOSED"], CloseEvent))

PairWaitTimeout ==
    \E slot \in Slots :
        /\ CallOf(slot).pc = "wait"
        /\ CallOf(slot).wait.timeout = "armed"
        /\ PairWaitEvent(slot, timerFires(CallOf(slot).wait))

NextPair ==
    \/ PairCallVibe3DCode
    \/ PairClickRedo
    \/ PairCallEdit3DCode
    \/ PairGetSvgDone
    \/ PairGetSvgAsImageDone
    \/ PairBlobToBase64Done
    \/ PairFetchDone
    \/ PairWaitOpen
    \/ PairWaitDeliver
    \/ PairWaitSocketClosed
    \/ PairWaitTimeout

SpecPair == InitPair /\ [][NextPair]_vars

-----------------------------------------------------------------------------
(* SpecSnapshot: one call of toSvg, the messages the window receives, time *)

InitSnapshot ==
    /\ w = NoWait
    /\ clock = 0
    /\ ev = NoEvent
    /\ shapes = [id \in PreviewIds |-> DefaultProps]
    /\ selected = {}
    /\ nextId = 1
    /\ call = NoCall
    /\ callB = NoCall
    /\ san = NoSan
    /\ \E id \in SnapShapeIds, iframe \in BOOLEAN : snap = NewSnap(id, iframe)
    /\ view = NoView
    /\ imp = NoImprove

\* the export calls toSvg(shape)
SnapCall ==
    /\ ~snap.called
    /\ snap' = toSvg(snap)
    /\ UNCHANGED outsideSnapshot

\* the window receives a message: from the frame if asked, or from anyone
SnapMessage ==
    /\ \E data \in MessageData :
          snap' = IF snap.listener
                  THEN [windowListener(snap, data) EXCEPT !.msg = data]
                  ELSE [snap EXCEPT !.msg = data]
    /\ UNCHANGED outsideSnapshot

\* the timer fires
SnapTimeout ==
    /\ snap.timer = "armed"
    /\ snap.elapsed >= SnapshotDeadline
    /\ snap' = snapshotTimeout(snap)
    /\ UNCHANGED outsideSnapshot

\* time passes; an armed timer fires before time moves past its delay
SnapTick ==
    /\ snap.called
    /\ snap.elapsed < MaxClock
    /\ ~(snap.timer = "armed" /\ snap.elapsed >= SnapshotDeadline)
    /\ snap' = [snap EXCEPT !.elapsed = snap.elapsed + 1]
    /\ UNCHANGED outsideSnapshot

NextSnapshot == SnapCall \/ SnapMessage \/ SnapTimeout \/ SnapTick

\* timers fire and time passes; nothing makes anyone send a message
SpecSnapshot ==
    InitSnapshot /\ [][NextSnapshot]_vars /\ WF_vars(SnapCall) /\ WF_vars(SnapTimeout) /\ WF_vars(SnapTick)

-----------------------------------------------------------------------------
(* SpecPreview: the component of one preview shape is rendered and its plus *)
(* button clicked once                                                      *)

InitPreview ==
    /\ w = NoWait
    /\ clock = 0
    /\ ev = NoEvent
    /\ shapes = [id \in PreviewIds |-> DefaultProps]
    /\ selected = {}
    /\ nextId = 1
    /\ call = NoCall
    /\ callB = NoCall
    /\ san = NoSan
    /\ snap = NoSnap
    /\ \E props \in ShapeProps, tab \in Tabs : view = NewView(props, tab)
    /\ imp = NoImprove

\* React renders the component
RenderPreview ==
    /\ view.pc = "mounting"
    /\ view' = [view EXCEPT !.pc = "rendered", !.html = htmlToUse(view.props)]
    /\ UNCHANGED outsidePreview

\* the user clicks the plus button
ClickPlus ==
    /\ view.pc = "rendered"
    /\ \E result \in BOOLEAN : view' = plus_onClick(view, result)
    /\ UNCHANGED outsidePreview

\* the parse request ends
ParseFetchDone ==
    /\ view.pc = "fetch"
    /\ \E response \in {"rejected", "notOk", "ok"} : view' = plus_afterFetch(view, response)
    /\ UNCHANGED outsidePreview

\* the body of the parse response is read
ParseJsonDone ==
    /\ view.pc = "json"
    /\ \E body \in ParseBodies, result \in BOOLEAN : view' = plus_afterJson(view, body, result)
    /\ UNCHANGED outsidePreview

\* the timer set after the switch of the tab fires
TabTimerFires ==
    /\ view.pc = "timer"
    /\ \E result \in BOOLEAN : view' = plus_afterTimeout(view, result)
    /\ UNCHANGED outsidePreview

NextPreview ==
    \/ RenderPreview
    \/ ClickPlus
    \/ ParseFetchDone
    \/ ParseJsonDone
    \/ TabTimerFires

SpecPreview == InitPreview /\ [][NextPreview]_vars

-----------------------------------------------------------------------------
(* SpecPush: the components of the preview shapes on the canvas, the plus   *)
(* button of one of them and 'add-gltf-object' events on the window. The    *)
(* tab store is written by these handlers only.                             *)

\* 'add-gltf-object' events followed in one behaviour
MaxEvents == 2

InitPush ==
    /\ w = NoWait
    /\ clock = 0
    /\ ev = NoEvent
    /\ shapes = [id \in PreviewIds |-> DefaultProps]
    /\ selected = {}
    /\ nextId = 1
    /\ call = NoCall
    /\ callB = NoCall
    /\ san = NoSan
    /\ snap = NoSnap
    /\ \E props \in ShapeProps, tab \in Tabs, others \in SUBSET (SnapShapeIds \ {ThisShape}) :
          view = [NewView(props, tab) EXCEPT !.mounted = {ThisShape} \cup others]
    /\ imp = NoImprove

PushRender == RenderPreview

PushClickPlus == ClickPlus

PushParseFetchDone == ParseFetchDone

PushParseJsonDone == ParseJsonDone

PushTabTimerFires == TabTimerFires

\* some code dispatches an 'add-gltf-object' event on the window
PushAddGltfEvent ==
    /\ view.pc # "mounting"
    /\ view.events < MaxEvents
    /\ \E detail \in Details : view' = dispatchAddGltfObject(view, detail)
    /\ UNCHANGED outsidePreview

\* a timer set by a listener fires
PushListenerTimerFires ==
    /\ view.queue # <<>>
    /\ view' = handleAddGltfObject_afterTimeout(view)
    /\ UNCHANGED outsidePreview

NextPush ==
    \/ PushRender
    \/ PushClickPlus
    \/ PushParseFetchDone
    \/ PushParseJsonDone
    \/ PushTabTimerFires
    \/ PushAddGltfEvent
    \/ PushListenerTimerFires

SpecPush == InitPush /\ [][NextPush]_vars

-----------------------------------------------------------------------------
(* SpecImprove: one invocation of improveDrawing on a canvas with a drawing *)
(* and a preview shape, and the user changing the selection while it waits  *)

InitImprove ==
    /\ w = NoWait
    /\ clock = 0
    /\ ev = NoEvent
    /\ shapes = [id \in PreviewIds |-> IF id = 1 THEN GeneratedShape ELSE DefaultProps]
    /\ selected = {}
    /\ nextId = 2
    /\ call = NoCall
    /\ callB = NoCall
    /\ san = NoSan
    /\ snap = NoSnap
    /\ view = NoView
    /\ imp = NoImprove

ImproveApply(r) ==
    /\ imp' = r.imp
    /\ selected' = r.selected
    /\ UNCHANGED outsideImprove

\* the user selects shapes and calls improveDrawing(editor)
CallImproveDrawing ==
    /\ imp.pc = "idle"
    /\ \E S \in Selections(shapes) : ImproveApply(improveDrawing_start(shapes, S, NewImprove))

ImproveGetSvgDone ==
    /\ imp.pc = "getSvg"
    /\ \E svg \in BOOLEAN : ImproveApply(improveDrawing_afterGetSvg(imp, selected, svg))

ImproveGetSvgAsImageDone ==
    /\ imp.pc = "getSvgAsImage"
    /\ \E blob \in BOOLEAN : ImproveApply(improveDrawing_afterGetSvgAsImage(imp, selected, blob))

ImproveBlobToBase64Done ==
    /\ imp.pc = "blobToBase64"
    /\ ImproveApply(improveDrawing_afterBlobToBase64(imp, selected))

ImproveFetchDone ==
    /\ imp.pc = "fetch"
    /\ \E response \in {"rejected", "notOk", "ok"}, taskId \in TaskIds :
          ImproveApply(improveDrawing_afterFetch(imp, selected, response, taskId))

\* the user changes the selection while the request or the job is pending
ImproveUserSelects ==
    /\ imp.pc \in {"fetch", "wait"}
    /\ \E S \in Selections(shapes) : selected' = S
    /\ UNCHANGED imp
    /\ UNCHANGED outsideImprove

ImproveWaitOpen ==
    /\ imp.pc = "wait"
    /\ imp.wait.readyState = "CONNECTING"
    /\ ImproveApply(improveDrawing_afterWaitEvent(shapes, imp, selected,
            dispatchEvent([imp.wait EXCEPT !.readyState = "OPEN"], OpenEvent)))

ImproveWaitDeliver ==
    /\ imp.pc = "wait"
    /\ \E e \in CallEvents("waitForImageGeneration") :
        /\ Deliverable(imp.wait, e)
        /\ ImproveApply(improveDrawing_afterWaitEvent(shapes, imp, selected,
                dispatchEvent(imp.wait, e)))

ImproveWaitTimeout ==
    /\ imp.pc = "wait"
    /\ imp.wait.timeout = "armed"
    /\ ImproveApply(improveDrawing_afterWaitEvent(shapes, imp, selected, timerFires(imp.wait)))

NextImprove ==
    \/ CallImproveDrawing
    \/ ImproveGetSvgDone
    \/ ImproveGetSvgAsImageDone
    \/ ImproveBlobToBase64Done
    \/ ImproveFetchDone
    \/ ImproveUserSelects
    \/ ImproveWaitOpen
    \/ ImproveWaitDeliver
    \/ ImproveWaitTimeout

SpecImprove == InitImprove /\ [][NextImprove]_vars

-----------------------------------------------------------------------------
(* SpecSanitizer: one call of processThreeJsCode on a text of segments *)

InitSanitizer ==
    /\ w = NoWait
    /\ clock = 0
    /\ ev = NoEvent
    /\ shapes = [id \in PreviewIds |-> DefaultProps]
    /\ selected = {}
    /\ nextId = 1
    /\ call = NoCall
    /\ callB = NoCall
    /\ \E ls \in SanitizerInputs : san = NewSan(ls)
    /\ snap = NoSnap
    /\ view = NoView
    /\ imp = NoImprove

\* processThreeJsCode(code) returns
Sanitize ==
    /\ ~san.returned
    /\ san' = [san EXCEPT !.returned = TRUE,
                          !.result = processThreeJsCode(san.code),
                          !.resultLines = sanitizeLines(SplitLines(san.code))]
    /\ UNCHANGED outsideSanitizer

\* the copy of edit3DCode.tsx is called on the same text
SanitizeEdit ==
    /\ ~san.editReturned
    /\ san' = [san EXCEPT !.editReturned = TRUE,
                          !.editResult = processThreeJsCode_edit(san.code)]
    /\ UNCHANGED outsideSanitizer

NextSanitizer ==
    \/ Sanitize
    \/ SanitizeEdit

SpecSanitizer == InitSanitizer /\ [][NextSanitizer]_vars

-----------------------------------------------------------------------------
(* Claims about the wait protocol, checked under SpecWait *)

C2_ClosedExactlyOnce ==
    /\ Settled(w) => w.closeCalls = 1
    /\ w.closeCalls <= 1

\* C3 (as claimed): the timer fires after 2 minutes (5 for scene code), and a
\* wait that is still pending then is rejected with the timeout error and its
\* channel closed.
C3_TimeoutRejects ==
    [][(w.timeout = "armed" /\ w'.timeout = "fired") =>
          /\ clock = (IF w.fn = "waitForCodeGeneration" THEN 5 ELSE 2)
          /\ w.state = "pending" =>
                /\ w'.state = "rejected"
                /\ w'.value.text \in {"Image generation timed out",
                                      "Code generation timed out",
                                      "Task timed out", "Code editing timed out"}
                /\ Released(w')]_waitVars

\* C4 (as claimed): a failed / error message with message "boom" rejects the
\* wait with the text "boom".
C4_RejectsWithMessage ==
    (IsFailed(ev) /\ ev.data.message = "boom") =>
        (w.state = "rejected" /\ w.value = ErrorOf("boom"))

\* C5 (as claimed): a message that cannot be parsed rejects the wait and
\* releases the channel.
C5_MalformedRejects ==
    ev.data.json = "malformed" =>
        (w.state = "rejected" /\ w.value.tag = "error" /\ Released(w))

\* C6 (as claimed): a completed message resolves the wait with its payload,
\* and with null when the payload is empty or absent.
C6_CompletedResolves ==
    IsCompleted(ev) => (w.state = "resolved" /\ w.value = PayloadOf(w.fn, ev))

\* C7: the delivery of a non-terminal message changes nothing of the wait:
\* not the promise, not the channel, not the close() count, not the timer.
C7_ProgressIgnored ==
    [][IsNonTerminal(ev') => w' = w]_waitVars

\* C7 witness: a status message is the last event delivered, time has passed,
\* and the wait is pending on an open channel that was never closed.
C7_Witness ==
    /\ IsNonTerminal(ev)
    /\ ev.type = "message"
    /\ clock > 0
    /\ w.state = "pending"
    /\ w.readyState = "OPEN"
    /\ w.closeCalls = 0
    /\ w.timeout = "armed"


-----------------------------------------------------------------------------
(* Claims about the orchestrators, checked under Spec *)

\* C8: when the submission request was answered with a non-OK status, the
\* invocation has thrown the API error, it has opened no notification channel,
\* and the preview shape it created is no longer on the canvas.
C8_NonOkRejects ==
    call.response = "notOk" =>
        /\ call.pc = "done"
        /\ call.result = "threw"
        /\ call.error = "API error"
        /\ call.channels = 0
        /\ call.wait = NoWait
        /\ call.created => ~shapes[call.shapeId].exists

\* C8 witness: a generation that created its preview shape got a non-OK
\* response, threw, and the shape is gone.
C8_Witness ==
    /\ call.op = "vibe3DCode"
    /\ call.created
    /\ call.response = "notOk"
    /\ call.result = "threw"
    /\ call.error = "API error"
    /\ call.channels = 0
    /\ ~shapes[call.shapeId].exists

\* C9 (as claimed): a vibe3DCode invocation that ended without a result,
\* whichever of export, encoding, submission, wait or result check failed, has
\* thrown, and its preview shape is no longer on the canvas.
C9_FailureDeletes ==
    (/\ call.op = "vibe3DCode"
     /\ call.pc = "done"
     /\ call.failedAt \in {"getSvg", "encode", "submit", "wait", "result"}) =>
        /\ call.result = "threw"
        /\ ~shapes[call.shapeId].exists

\* C10 (as claimed): every preview shape on the canvas is empty, or holds
\* code and no asset with isGltf false, or an asset and no code with isGltf
\* true.
C10_OneContentKind ==
    \A id \in PreviewIds :
        shapes[id].exists =>
            \/ shapes[id].threeJsCode = "" /\ shapes[id].gltfUrl = "" /\ ~shapes[id].isGltf
            \/ shapes[id].threeJsCode # "" /\ shapes[id].gltfUrl = "" /\ ~shapes[id].isGltf
            \/ shapes[id].threeJsCode = "" /\ shapes[id].gltfUrl # "" /\ shapes[id].isGltf

\* the preview shapes on the canvas
OnCanvasPreviews(sh) == { id \in PreviewIds : sh[id].exists }

\* C11: a vibe3DCode called with no shape id on a selection that holds a
\* shape that is no preview creates exactly one preview shape, with no code,
\* no asset and isGltf false, at an x greater than the right edge of the
\* selection; and no later step of the invocation creates a shape.
C11_CreatesOnePreview ==
    /\ [][(/\ Idle
           /\ call'.op = "vibe3DCode"
           /\ call'.pc # "done"
           /\ ~call'.redo
           /\ call'.drawable # {}) =>
              /\ OnCanvasPreviews(shapes') = OnCanvasPreviews(shapes) \cup {call'.shapeId}
              /\ call'.shapeId \notin OnCanvasPreviews(shapes)
              /\ shapes'[call'.shapeId].threeJsCode = ""
              /\ shapes'[call'.shapeId].gltfUrl = ""
              /\ ~shapes'[call'.shapeId].isGltf
              /\ shapes'[call'.shapeId].x > maxXOf(shapes, getSelectedShapes(shapes, selected'))]_vars
    /\ [][~Idle => OnCanvasPreviews(shapes') \subseteq OnCanvasPreviews(shapes)]_vars

\* C11 witness: a second preview shape was created from a selection of the
\* drawing and the first preview shape, to the right of that preview shape.
C11_Witness ==
    /\ call.op = "vibe3DCode"
    /\ call.created
    /\ call.pc = "getSvg"
    /\ call.drawable # {}
    /\ \E id \in selected \cap PreviewIds :
          /\ shapes[id].exists
          /\ shapes[call.shapeId].x = shapes[id].x + PreviewWidth + PreviewGap

\* the generation results a preview shape holds
ResultsOf(shape) == <<shape.threeJsCode, shape.gltfUrl, shape.isGltf>>

\* C12: a step changes the generation results of a preview shape only when
\* the wait of the invocation working on that shape is resolved, and the
\* invocation returns; an invocation whose wait is pending or rejected
\* changes the results of no shape.
C12_UpdateAfterResolve ==
    [][\A id \in PreviewIds :
          (/\ shapes[id].exists
           /\ shapes'[id].exists
           /\ ResultsOf(shapes'[id]) # ResultsOf(shapes[id])) =>
              /\ call.pc = "wait"
              /\ call'.shapeId = id
              /\ call'.wait.state = "resolved"
              /\ call'.result = "returned"]_vars

\* C12 witness: the wait of a regeneration on a shape that held an asset
\* resolved with code, and the shape now holds that code.
C12_Witness ==
    /\ call.redo
    /\ call.wait.state = "resolved"
    /\ call.wait.value.tag = "content"
    /\ call.result = "returned"
    /\ shapes[call.shapeId].exists
    /\ shapes[call.shapeId].threeJsCode = processThreeJsCode(call.wait.value.text)
    /\ shapes[call.shapeId].gltfUrl # ""

\* C13: an invocation sends at most one submission request; it opens one
\* notification channel when the submission was answered ok, for the task id
\* of the answer, and none otherwise; whatever fails afterwards, it sends no
\* second request and opens no second channel.
C13_OneSubmissionOneChannel ==
    /\ call.fetches <= 1
    /\ call.channels <= 1
    /\ call.channels = 1 <=> call.response = "ok"
    /\ call.channels = 1 <=> call.wait.fn \in WaitFns
    /\ call.channels = 1 => (call.taskId \in TaskIds /\ call.subscribed = call.taskId)

\* C13 witness: the wait of an invocation timed out, the invocation threw,
\* and it had sent one request and opened one channel.
C13_Witness ==
    /\ call.result = "threw"
    /\ call.failedAt = "wait"
    /\ call.wait.timeout = "fired"
    /\ call.fetches = 1
    /\ call.channels = 1
    /\ call.subscribed = "task-2"

\* C14 (as claimed): a vibe3DCode called on a selection of preview shapes
\* only has thrown, has created no preview shape and has sent no submission.
C14_NoDrawableRejects ==
    (/\ call.op = "vibe3DCode"
     /\ ~call.redo
     /\ call.pc = "done"
     /\ selected # {}
     /\ selected \subseteq PreviewIds) =>
        /\ call.result = "threw"
        /\ ~call.created
        /\ call.fetches = 0

\* C15 (as claimed): an invocation that ended at a failed stage has thrown;
\* so has a generation whose export of the selection yielded no SVG.
C15_FailureThrows ==
    (call.pc = "done" /\ call.failedAt # "none") => call.result = "threw"

\* the wait resolved with no result: null, undefined or an empty text
NoResult(v) ==
    \/ v.tag \in {"null", "undefined"}
    \/ v.tag \in {"string", "content"} /\ v.text = ""

\* C16 (as claimed): a generation whose wait resolved with no result, or
\* with code that is shorter than 100 characters once sanitized, has thrown,
\* and its preview shape is no longer on the canvas.
C16_NoResultRejects ==
    (/\ call.op = "vibe3DCode"
     /\ call.pc = "done"
     /\ call.wait.state = "resolved"
     /\ \/ NoResult(call.wait.value)
        \/ /\ call.wait.value.tag = "content"
           /\ Len(processThreeJsCode(call.wait.value.text)) < MinCodeLength) =>
        /\ call.result = "threw"
        /\ ~shapes[call.shapeId].exists

-----------------------------------------------------------------------------
(* Claims about interleaved invocations, checked under SpecPair *)

\* C17: a step of one invocation changes no preview shape but the one that
\* invocation works on: the shape of an interleaved invocation on another
\* element is neither written, nor modified, nor deleted by it.
C17_NoInterference ==
    [][\A id \in PreviewIds :
          /\ (call' # call /\ id # call'.shapeId) => shapes'[id] = shapes[id]
          /\ (callB' # callB /\ id # callB'.shapeId) => shapes'[id] = shapes[id]]_vars

\* C17 witness: while A awaits its wait on the preview shape it created, the
\* edit B of the generated preview shape failed at its wait; both shapes are
\* on the canvas and the generated one holds what it held.
C17_Witness ==
    /\ call.op = "vibe3DCode"
    /\ call.created
    /\ call.pc = "wait"
    /\ callB.op = "edit3DCode"
    /\ callB.result = "threw"
    /\ callB.failedAt = "wait"
    /\ callB.shapeId # call.shapeId
    /\ shapes[call.shapeId].exists
    /\ shapes[callB.shapeId] = GeneratedShape

-----------------------------------------------------------------------------
(* The sanitizer's contract (SpecSanitizer) *)

\* a line of the form import ... from "three"
IsThreeImport(l) == l \in {ImportThree, ImportAliased}

\* the text of one javascript block around the line "code"
FencedCode == Join(<<JsFence, Code, Fence>>)

\* C18: given the text of a javascript block around the line "code",
\* processThreeJsCode returns exactly "code"; and whatever the text, no line
\* of what it returns is an import ... from "three"
C18_FencedCodeSanitized ==
    san.returned =>
        /\ (san.code = FencedCode => san.result = Code)
        /\ \A i \in 1..Len(san.resultLines) : ~IsThreeImport(san.resultLines[i])

\* what the code returns for the text of C18: the line feed before the
\* closing fence is part of the capture
C18_TrailingLineFeed ==
    (san.returned /\ san.code = FencedCode) => san.result = Join(<<Code, "">>)

\* the fences that open a block of the text: one tagged javascript when
\* jsOnly, with a fence after it
BlockOpens(ls, jsOnly) ==
    { i \in 1..Len(ls) :
        /\ IF jsOnly THEN IsJsFence(ls[i]) ELSE IsFence(ls[i])
        /\ \E j \in (i+1)..Len(ls) : IsFence(ls[j]) }

\* the contents of the first such block, whatever they are: the lines up to
\* the next fence and the line feed before it
BlockContents(ls, jsOnly) ==
    LET i == CHOOSE x \in BlockOpens(ls, jsOnly) : \A y \in BlockOpens(ls, jsOnly) : x <= y
        j == CHOOSE x \in (i+1)..Len(ls) :
               IsFence(ls[x]) /\ \A y \in (i+1)..(x-1) : ~IsFence(ls[y])
    IN  IF j = i + 1 THEN <<"">> ELSE Append(SubSeq(ls, i + 1, j - 1), "")

\* the working text by strict precedence of what is present in the text
WorkingText(ls) ==
    IF BlockOpens(ls, TRUE) # {} THEN BlockContents(ls, TRUE)
    ELSE IF BlockOpens(ls, FALSE) # {} THEN BlockContents(ls, FALSE)
    ELSE IF ScriptBlock(ls) # <<>> THEN ScriptBlock(ls)
    ELSE ls

\* C19: processThreeJsCode works on the contents of a javascript block if
\* the text has one, else on the contents of any fenced block, else on the
\* contents of a script tag, else on the text itself; it returns for every
\* text
C19_StrictPrecedence ==
    san.returned =>
        san.resultLines = renameControls(stripImports(WorkingText(san.lines)))

\* the precedence the code does keep: among texts whose first javascript
\* block and first block hold something
C19_NonEmptyPrecedence ==
    (/\ san.returned
     /\ BlockOpens(san.lines, TRUE) # {} => BlockContents(san.lines, TRUE) # <<"">>
     /\ BlockOpens(san.lines, FALSE) # {} => BlockContents(san.lines, FALSE) # <<"">>)
    => san.resultLines = renameControls(stripImports(WorkingText(san.lines)))

-----------------------------------------------------------------------------
(* The snapshot's contract (SpecSnapshot) *)

\* the last message is a screenshot for the shape of the call
ForThisShape(s) ==
    s.msg.kind = "object" /\ Truthy(s.msg.screenshot) /\ s.msg.shapeid = s.shapeId

\* what holds of every state of a call
SnapshotSettled ==
    /\ snap.promise # "rejected"
    /\ snap.settled <= 1
    /\ snap.promise = "resolved" =>
          /\ snap.settled = 1
          /\ ~snap.listener
          /\ snap.removals >= 1
          /\ snap.g = snap.value
          /\ snap.timer \in {"cleared", "fired"}
          /\ snap.timer = "cleared" => snap.value = <<Png>>
          /\ snap.timer = "fired" => snap.value = <<>>
    /\ snap.promise = "pending" => snap.listener /\ snap.timer = "armed"

\* what holds of every step of a call
SnapshotStep ==
    /\ (snap.promise = "pending" /\ snap'.promise = "resolved" /\ snap'.timer = "cleared")
          => ForThisShape(snap')
    /\ (snap.promise = "pending" /\ snap'.msg # NoMessage /\ snap.elapsed = snap'.elapsed
           /\ snap'.timer # "fired" /\ ~ForThisShape(snap'))
          => snap'.promise = "pending" /\ snap'.g = snap.g
    /\ (snap.promise = "pending" /\ snap'.timer # "fired" /\ snap.elapsed = snap'.elapsed
           /\ ForThisShape(snap'))
          => snap'.promise = "resolved" /\ snap'.value = <<Png>>
    /\ snap.promise = "resolved" => snap'.promise = "resolved" /\ snap'.value = snap.value

\* C20: the promise of toSvg is never rejected and is resolved, once: with
\* the screenshot if a screenshot message for the id of this shape comes
\* before the timer of 2 seconds fires, else with the empty g when it fires;
\* messages for other ids change nothing, and either way the listener of the
\* window is removed
C20_SnapshotResolves ==
    /\ []SnapshotSettled
    /\ [][SnapshotStep]_vars
    /\ (snap.called ~> snap.promise = "resolved")
    /\ [](snap.elapsed > SnapshotDeadline => snap.promise = "resolved")

\* the timer resolved the promise with the empty g and removed the listener,
\* after a screenshot for another shape was received and ignored
C20_Witness ==
    /\ snap.promise = "resolved"
    /\ snap.timer = "fired"
    /\ snap.value = <<>>
    /\ ~snap.listener
    /\ snap.msg.kind = "object"
    /\ snap.msg.screenshot = Png
    /\ snap.msg.shapeid \notin {snap.shapeId, Absent}

-----------------------------------------------------------------------------
(* The preview component's contract (SpecPreview) *)

\* C21: what the component renders goes by isGltf: with isGltf and a gltfUrl
\* the document that loads the asset, whatever threeJsCode holds; else with
\* a threeJsCode the document that embeds it; else no document
C21_RenderedByFlag ==
    view.pc # "mounting" =>
        IF view.props.isGltf /\ view.props.gltfUrl # ""
        THEN view.html = Html("asset", view.props.gltfUrl, "")
        ELSE IF view.props.threeJsCode # ""
             THEN view.html = Html("code", "", view.props.threeJsCode)
             ELSE view.html.doc = "none"

\* a shape that holds both an asset and code, flagged as an asset, renders
\* the asset
C21_Witness ==
    /\ view.pc = "rendered"
    /\ view.props.isGltf
    /\ view.props.gltfUrl = GltfUrl
    /\ view.props.threeJsCode = Join(PlainScene)
    /\ view.html.doc = "asset"
    /\ view.html.code = ""

\* the shape of the component is backed by an asset, by code, by nothing
AssetBacked(v) == v.props.isGltf /\ v.props.gltfUrl # ""
CodeBacked(v) == ~AssetBacked(v) /\ v.props.threeJsCode # ""

\* the handler of the plus button ran to its end
Pushed(v) == v.pc = "done" /\ ~v.threw

\* C22: the plus button of a shape backed by an asset gives the gltfUrl to
\* the object store without any request; that of a shape backed by code
\* first asks the parse service and gives the store the object code of the
\* answer; that of an empty shape sends no request and adds nothing
C22_PushByKind ==
    /\ AssetBacked(view) =>
          /\ view.fetches = 0
          /\ \A i \in 1..Len(view.added) :
                view.added[i] = [kind |-> "gltf", arg |-> view.props.gltfUrl]
          /\ Pushed(view) => Len(view.added) = 1
    /\ CodeBacked(view) =>
          /\ view.fetches <= 1
          /\ view.pc \notin {"mounting", "rendered"} => view.fetches = 1
          /\ view.pending # NoAdd => view.parsed
          /\ \A i \in 1..Len(view.added) :
                /\ view.parsed
                /\ view.added[i] = [kind |-> "code", arg |-> view.objectCode]
          /\ Pushed(view) => Len(view.added) = 1
    /\ (~AssetBacked(view) /\ ~CodeBacked(view)) =>
          view.fetches = 0 /\ view.added = <<>> /\ view.timers = 0

\* a shape flagged as an asset, which also holds code, was pushed from the
\* drawing tab: the asset went to the store after the timer, with no request
C22_Witness ==
    /\ Pushed(view)
    /\ view.props = [isGltf |-> TRUE, gltfUrl |-> GltfUrl, threeJsCode |-> Join(PlainScene)]
    /\ view.timers = 1
    /\ view.fetches = 0
    /\ view.added = <<[kind |-> "gltf", arg |-> GltfUrl]>>

-----------------------------------------------------------------------------
(* The edit orchestrator's contract (Spec) *)

\* C23: edit3DCode calls setIsEditing(true) first and setIsEditing(false)
\* once when it ends, however it ends; the flag is not true once it ended
C23_EditingFlagBracketed ==
    call.op = "edit3DCode" =>
        /\ call.pc # "done" => call.setIsEditing = <<TRUE>> /\ call.isEditing
        /\ call.pc = "done" => call.setIsEditing = <<TRUE, FALSE>> /\ ~call.isEditing

\* an edit whose wait timed out has reset the flag
C23_Witness ==
    /\ call.op = "edit3DCode"
    /\ call.pc = "done"
    /\ call.result = "threw"
    /\ call.failedAt = "wait"
    /\ call.wait.timeout = "fired"
    /\ call.setIsEditing = <<TRUE, FALSE>>

\* the selection edit3DCode accepts: one preview shape, holding at least 10
\* characters of code, and at least one shape that is not a preview
EditableSelection(sh, sel) ==
    LET previews == { id \in getSelectedShapes(sh, sel) : IsModel3d(id) }
        others == { id \in getSelectedShapes(sh, sel) : ~IsModel3d(id) }
    IN  /\ Cardinality(previews) = 1
        /\ others # {}
        /\ \A id \in previews : Len(sh[id].threeJsCode) >= MinEditableCodeLength

ValidationErrors ==
    { "First select shapes for editing.",
      "First select a 3D model to edit.",
      "Select only one 3D model at a time.",
      "Select at least one drawing or shape to guide the editing.",
      "The selected 3D model does not contain valid code." }

\* the step that calls edit3DCode
EditStarts == call.pc \in {"idle", "done"} /\ call'.op = "edit3DCode" /\ call' # call

\* C24: edit3DCode goes on to the submission only with one preview shape of
\* at least 10 characters of code and at least one other shape selected;
\* else it throws a validation error, having sent no request, opened no
\* channel and changed no shape
C24_EditValidates ==
    [][EditStarts =>
        IF EditableSelection(shapes, selected')
        THEN call'.pc = "getSvg" /\ call'.result = "none"
        ELSE /\ call'.pc = "done"
             /\ call'.result = "threw"
             /\ call'.error \in ValidationErrors
             /\ call'.fetches = 0
             /\ call'.channels = 0
             /\ shapes' = shapes]_vars

\* an edit with only a preview shape selected was refused
C24_Witness ==
    /\ call.op = "edit3DCode"
    /\ call.pc = "done"
    /\ call.error = "Select at least one drawing or shape to guide the editing."
    /\ call.fetches = 0
    /\ \E id \in selected : IsModel3d(id) /\ Len(shapes[id].threeJsCode) >= MinEditableCodeLength

\* C25: an edit3DCode that fails leaves every shape as it was, the edited
\* preview shape included; one that succeeds changes the threeJsCode of the
\* edited shape and nothing else
C25_EditFrame ==
    [][call'.op = "edit3DCode" =>
        IF call'.result = "returned" /\ call.result # "returned"
        THEN shapes' = [shapes EXCEPT ![call'.shapeId].threeJsCode =
                                          shapes'[call'.shapeId].threeJsCode]
        ELSE shapes' = shapes]_vars

\* an edit that got no usable code failed, and the shape holds what it held
C25_Witness ==
    /\ call.op = "edit3DCode"
    /\ call.pc = "done"
    /\ call.result = "threw"
    /\ call.failedAt = "result"
    /\ shapes[call.shapeId].exists
    /\ shapes[call.shapeId].threeJsCode = call.code
    /\ call.code # ""

-----------------------------------------------------------------------------
(* Regeneration: vibe3DCode on an existing preview shape (Spec) *)

\* what regeneration keeps of the claim below: it creates no shape, and when
\* it returns having awaited its wait, only its shape has changed
C26_RegenerationCreatesNothing ==
    [][(call'.redo /\ call' # call) =>
        /\ ~call'.created
        /\ nextId' = nextId
        /\ \A id \in PreviewIds : id # call'.shapeId => shapes'[id] = shapes[id]]_vars

\* C26: vibe3DCode called with the id of an existing preview shape creates
\* no shape, changes only that shape when it succeeds, and has deleted that
\* shape when it fails, whatever the shape held
C26_RegenerationDeletesOnFailure ==
    call.redo =>
        /\ ~call.created
        /\ (call.pc = "done" /\ call.result = "threw") => ~shapes[call.shapeId].exists

\* C27: the redo button always comes back to idle: once its vibe3DCode has
\* ended, returned or thrown, isRegenerating is false again, so that no
\* shape on the canvas stays under the overlay
C27_RegeneratingReset ==
    (call.redo /\ call.pc = "done") => ~call.isRegenerating

-----------------------------------------------------------------------------
(* Two invocations on one preview shape (SpecPair) *)

\* the invocation c ends in this step by writing its result with
\* updateShape, into a shape that was deleted before
UpdatesDeleted(c, d) ==
    /\ c.op = "vibe3DCode"
    /\ c.pc = "wait"
    /\ d.pc = "done"
    /\ d.result = "returned"
    /\ ~shapes[c.shapeId].exists

\* the invocation c fails in this step and its catch deletes the shape that
\* the other invocation, o, had returned from having written its result
DeletesPopulated(c, d, o) ==
    /\ c.op = "vibe3DCode"
    /\ c.pc \in {"fetch", "wait"}
    /\ d.pc = "done"
    /\ d.result = "threw"
    /\ o.op = "vibe3DCode" /\ o.pc = "done" /\ o.result = "returned" /\ o.failedAt = "none"
    /\ o.shapeId = c.shapeId
    /\ shapes[c.shapeId].exists
    /\ ~shapes'[c.shapeId].exists

\* C28: when two generations on the same preview shape interleave, none
\* calls updateShape on a shape that was deleted, and the catch of one does
\* not delete the shape the other wrote its result into
C28_NoLostRegeneration ==
    [][/\ ~UpdatesDeleted(call, call')
       /\ ~UpdatesDeleted(callB, callB')
       /\ ~DeletesPopulated(call, call', callB)
       /\ ~DeletesPopulated(callB, callB', call)]_vars

\* the second half alone
C28_NoPopulatedDeleted ==
    [][/\ ~DeletesPopulated(call, call', callB)
       /\ ~DeletesPopulated(callB, callB', call)]_vars

-----------------------------------------------------------------------------
(* The image orchestrator's contract (SpecImprove) *)

\* C29: the image shape goes to the right of the selection improveDrawing
\* rasterised and submitted: when its wait resolves with an image it creates
\* the shape, at the right edge of that selection plus the gap, whatever the
\* user selected in the meantime
C29_PlacedBySubmittedSelection ==
    [][(/\ imp.pc = "wait"
        /\ imp'.pc = "done"
        /\ imp'.wait.state = "resolved"
        /\ imp'.wait.value.tag = "image")
       => /\ imp'.result = "returned"
          /\ Len(imp'.images) = 1
          /\ imp'.images[1].x = maxXOf(shapes, imp.selectedShapes) + ImageGap]_vars

\* C30: improveDrawing creates an asset and an image shape only once its
\* wait has resolved with an image, then one asset and one shape that refers
\* to it, and selects the shape; when it throws it has created neither, and
\* the error it throws is the one that made it fail
C30_CreatesOnlyWithImage ==
    /\ (imp.assets # <<>> \/ imp.images # <<>>) =>
          /\ imp.wait.state = "resolved"
          /\ imp.wait.value.tag = "image"
          /\ imp.pc = "done" /\ imp.result = "returned"
          /\ Len(imp.assets) = 1
          /\ Len(imp.images) = 1
          /\ imp.images[1].assetId = imp.assets[1].id
          /\ imp.assets[1].src = imp.wait.value.text
          /\ selected = {imp.images[1].id}
    /\ (imp.pc = "done" /\ imp.result = "returned") => Len(imp.images) = 1
    /\ (imp.pc = "done" /\ imp.result = "threw") =>
          /\ imp.assets = <<>> /\ imp.images = <<>>
          /\ imp.error # ""
          /\ imp.wait.state = "rejected" => imp.error = imp.wait.value.text
    /\ imp.pc = "done" => imp.result \in {"returned", "threw"}

\* the wait resolved with null: the invocation threw and created nothing
C30_Witness ==
    /\ imp.pc = "done"
    /\ imp.result = "threw"
    /\ imp.wait.state = "resolved"
    /\ imp.wait.value = Null
    /\ imp.error = "No image was generated"
    /\ imp.assets = <<>>
    /\ imp.images = <<>>


\* C31 (as claimed): the timer firing after the wait has settled has no
\* observable effect: for waitForImageGeneration and waitForCodeEditing it does
\* not fire at all, and for waitForCodeGeneration and waitForTaskResult it
\* changes neither the outcome nor the number of close() invocations.
C31_LateTimeoutInert ==
    [][(Settled(w) /\ w.timeout = "armed" /\ w'.timeout = "fired") =>
          /\ w.fn \in {"waitForCodeGeneration", "waitForTaskResult"}
          /\ w'.state = w.state
          /\ w'.value = w.value
          /\ w'.closeCalls = w.closeCalls]_waitVars


\* C32 (as claimed): when the event source of a pending SSE wait reports a
\* connection-level error (an 'error' event with no data), the wait rejects
\* with the reason "Error with SSE connection".
C32_ConnectionErrorReason ==
    [][(~IsSocket(w.fn) /\ w.state = "pending" /\ ev' = ConnectionError
            /\ w' # w) =>
          /\ w'.state = "rejected"
          /\ w'.value = ErrorOf("Error with SSE connection")]_waitVars


-----------------------------------------------------------------------------
(* Pushing to the object workspace (SpecPush) *)

\* the objects given to the object store and those a timer will give it
Scheduled(v) ==
    Len(v.added) + Len(v.queue) + (IF v.pending # NoAdd THEN 1 ELSE 0)

\* the step is a trigger that pushes: a click or an event after which an
\* object was added or will be
Pushes(v, v2) == Scheduled(v2) > Scheduled(v)

\* C33, first part: no object is added, at once or by a timer, before the
\* tab was switched to 'threejs'.
C33_SwitchBeforeAdd ==
    Scheduled(view) > 0 => view.activeTab = "threejs"

\* C33, second part: a trigger adds its object once, and the timers add what
\* was scheduled and nothing else.
C33_OncePerTrigger ==
    [][Scheduled(view') \in {Scheduled(view), Scheduled(view) + 1}]_vars

\* C33, third part: a trigger on the 'threejs' tab adds its object in the
\* same step, with no timer.
C33_ImmediateOnThreeJs ==
    [][(view.activeTab = "threejs" /\ Pushes(view, view')) =>
          /\ Len(view'.added) > Len(view.added)
          /\ view'.timers = view.timers]_vars

\* C33 (as claimed): when an object is pushed while the active tab is not
\* 'threejs', the tab is switched before the object is added, and the object
\* is added exactly once per trigger; on the 'threejs' tab the object is
\* added immediately with no tab switch.
C33_SwitchThenAddOnce ==
    /\ []C33_SwitchBeforeAdd
    /\ C33_OncePerTrigger
    /\ C33_ImmediateOnThreeJs


-----------------------------------------------------------------------------
(* The two copies of the sanitizer (SpecSanitizer) *)

\* C34: on every text, the processThreeJsCode of edit3DCode.tsx returns what
\* the processThreeJsCode of improveDrawing.tsx returns.
C34_CopiesAgree ==
    (san.returned /\ san.editReturned) => san.editResult = san.result

\* C34 witness: both copies returned the same code for a text with an import
\* and a THREE.OrbitControls, and it is not the text given.
C34_Witness ==
    /\ san.returned
    /\ san.editReturned
    /\ \E i \in 1..Len(san.lines) : san.lines[i] = ImportThree
    /\ \E i \in 1..Len(san.lines) : san.lines[i] = Controls
    /\ \E i \in 1..Len(san.resultLines) : san.resultLines[i] = ControlsBare
    /\ san.editResult = san.result
    /\ san.result # san.code

====
